---- MODULE Spec2Model ----
(***************************************************************************)
(* The crop health monitoring service and its health scoring engine.      *)
(*                                                                         *)
(* The model follows src/model/utils/health_scorer.py (HealthScorer),      *)
(* src/model/utils/disease_classifier.py (DiseaseClassifier), the lookup   *)
(* of src/model/utils/crop_database.py (CropDatabase), the advice agent   *)
(* of src/model/utils/rag_agent.py (SimpleRAGAgent), the PlantNet client   *)
(* of src/model/utils/plantnet_api.py (PlantNetAPI), the detector wrapper  *)
(* of src/model/utils/yolo_inference.py (YOLOInference.predict), the       *)
(* request handlers of src/model/main.py and the ranges of                 *)
(* src/model/config.py.                                                    *)
(*                                                                         *)
(* Python strings that the code searches (substring, split, lower) are     *)
(* sequences of one-character strings.  Python floats are exact rationals  *)
(* <<numerator, denominator>> in lowest terms with denominator > 0, so     *)
(* the model says nothing about binary rounding.  Python's None is the     *)
(* record None, or NoValue where a float or a string is expected.          *)
(***************************************************************************)
EXTENDS Integers, Sequences, FiniteSets

VARIABLES
    disease_classes,  \* DiseaseClassifier.disease_classes (list of class names)
    disease_db,       \* DiseaseClassifier.disease_db (insertion-ordered dict)
    pc,               \* "idle": no call in progress; "scored" / "looked_up": a call returned
    detections,       \* argument of the last calculate_health_score call
    sensor_data,      \* argument of the last calculate_health_score call
    assessment,       \* HealthAssessment returned by the last call, or None
    crop_label,       \* argument of the last CropDatabase.get_disease_info call
    crop_info,        \* its result, or None
    call,             \* the last direct call of a helper method: [op, its arguments, result], or None
    optimal_ranges,   \* config.OPTIMAL_RANGES as the module holds it in memory
    huggingface_key,  \* SimpleRAGAgent.huggingface_key, "" when not configured
    threads,          \* per thread calling calculate_health_score: its position and locals
    api_key,          \* PlantNetAPI.api_key, "" when not configured
    yolo_inference,   \* main.yolo_inference: the detector, or None when it failed to initialise
    predictions_store \* main.predictions_store: prediction_id -> stored record

vars == <<disease_classes, disease_db, pc, detections, sensor_data, assessment,
          crop_label, crop_info, call, optimal_ranges, threads, huggingface_key,
          api_key, yolo_inference, predictions_store>>

None == [none |-> TRUE]

\* None where the value is otherwise a float or a string
NoValue == <<>>

(***************************************************************************)
(* Exact rational arithmetic standing for Python float arithmetic.         *)
(***************************************************************************)
RECURSIVE gcd(_, _)
gcd(a, b) == IF b = 0 THEN a ELSE gcd(b, a % b)

Rat(n, d) ==
    LET g == gcd(IF n < 0 THEN -n ELSE n, d)
    IN  <<n \div g, d \div g>>

R(k) == <<k, 1>>

RAdd(x, y) == Rat(x[1] * y[2] + y[1] * x[2], x[2] * y[2])

RSub(x, y) == Rat(x[1] * y[2] - y[1] * x[2], x[2] * y[2])

RMul(x, y) == Rat(x[1] * y[1], x[2] * y[2])

\* x / y for y > 0 (the code divides by a count or by a range width)
RDiv(x, y) == Rat(x[1] * y[2], x[2] * y[1])

RLe(x, y) == x[1] * y[2] <= y[1] * x[2]

RLt(x, y) == x[1] * y[2] < y[1] * x[2]

\* Python max(x, y) and min(x, y): the first argument wins a tie
RMax(x, y) == IF RLt(x, y) THEN y ELSE x

RMin(x, y) == IF RLt(y, x) THEN y ELSE x

RECURSIVE RSum(_)
RSum(s) == IF s = <<>> THEN R(0) ELSE RAdd(s[1], RSum(Tail(s)))

\* numpy.mean of a non-empty list
RMean(s) == RDiv(RSum(s), R(Len(s)))

(***************************************************************************)
(* Python str operations on character sequences.                           *)
(***************************************************************************)
UpperChars == <<"A","B","C","D","E","F","G","H","I","J","K","L","M",
                "N","O","P","Q","R","S","T","U","V","W","X","Y","Z">>

LowerChars == <<"a","b","c","d","e","f","g","h","i","j","k","l","m",
                "n","o","p","q","r","s","t","u","v","w","x","y","z">>

\* str.lower()
lower(s) ==
    [i \in 1..Len(s) |->
        IF \E k \in 1..Len(UpperChars) : UpperChars[k] = s[i]
        THEN LowerChars[CHOOSE k \in 1..Len(UpperChars) : UpperChars[k] = s[i]]
        ELSE s[i]]

\* a in b, for strings
contains(b, a) ==
    \E i \in 0..(Len(b) - Len(a)) : SubSeq(b, i + 1, i + Len(a)) = a

\* str.split(): the maximal runs of non-blank characters, in order
RECURSIVE split_from(_, _, _)
split_from(s, i, word) ==
    IF i > Len(s)
    THEN IF word = <<>> THEN <<>> ELSE <<word>>
    ELSE IF s[i] = " "
         THEN (IF word = <<>> THEN <<>> ELSE <<word>>) \o split_from(s, i + 1, <<>>)
         ELSE split_from(s, i + 1, Append(word, s[i]))

split(s) == split_from(s, 1, <<>>)

(***************************************************************************)
(* The strings of the program and of the inputs.                           *)
(***************************************************************************)
s_healthy == <<"h","e","a","l","t","h","y">>
s_blight == <<"b","l","i","g","h","t">>
s_leaf_spot == <<"l","e","a","f","_","s","p","o","t">>
s_rust == <<"r","u","s","t">>
s_mildew == <<"m","i","l","d","e","w">>
s_virus_disease == <<"v","i","r","u","s","_","d","i","s","e","a","s","e">>
s_anthracnose == <<"a","n","t","h","r","a","c","n","o","s","e">>
s_rot_disease == <<"r","o","t","_","d","i","s","e","a","s","e">>
s_scab == <<"s","c","a","b">>
s_pest_damage == <<"p","e","s","t","_","d","a","m","a","g","e">>
s_bacterial_disease == <<"b","a","c","t","e","r","i","a","l","_","d","i","s","e","a","s","e">>
s_late_blight_sp == <<"l","a","t","e"," ","b","l","i","g","h","t">>
s_early_blight_sp == <<"e","a","r","l","y"," ","b","l","i","g","h","t">>
s_bacterial_wilt_sp == <<"b","a","c","t","e","r","i","a","l"," ","w","i","l","t">>
s_bacterial_spot_sp == <<"b","a","c","t","e","r","i","a","l"," ","s","p","o","t">>
s_xyz_unrecognized_tag == <<"x","y","z","_","u","n","r","e","c","o","g","n","i","z","e","d","_","t","a","g">>
s_corn_rust_sp == <<"c","o","r","n"," ","r","u","s","t">>
s_Tomato_Blight_sp == <<"T","o","m","a","t","o"," ","B","l","i","g","h","t">>
s_tomato_bacterial_leaf_spot_sp == <<"t","o","m","a","t","o"," ","b","a","c","t","e","r","i","a","l"," ","l","e","a","f"," ","s","p","o","t">>
s_tomato_early_blight_sp == <<"t","o","m","a","t","o"," ","e","a","r","l","y"," ","b","l","i","g","h","t">>
s_tomato_late_blight_sp == <<"t","o","m","a","t","o"," ","l","a","t","e"," ","b","l","i","g","h","t">>
s_potato_early_blight_sp == <<"p","o","t","a","t","o"," ","e","a","r","l","y"," ","b","l","i","g","h","t">>
s_potato_late_blight_sp == <<"p","o","t","a","t","o"," ","l","a","t","e"," ","b","l","i","g","h","t">>
s_wheat_leaf_rust_sp == <<"w","h","e","a","t"," ","l","e","a","f"," ","r","u","s","t">>
s_kw_critical == <<"c","r","i","t","i","c","a","l">>
s_kw_severe == <<"s","e","v","e","r","e">>
s_kw_wilt == <<"w","i","l","t">>
s_kw_death == <<"d","e","a","t","h">>
s_kw_dead == <<"d","e","a","d">>
s_early_blight == <<"e","a","r","l","y","_","b","l","i","g","h","t">>
s_late_blight == <<"l","a","t","e","_","b","l","i","g","h","t">>
s_bacterial_spot == <<"b","a","c","t","e","r","i","a","l","_","s","p","o","t">>
s_powdery_mildew == <<"p","o","w","d","e","r","y","_","m","i","l","d","e","w">>
s_spider_mite == <<"s","p","i","d","e","r","_","m","i","t","e">>
s_earlyblight == <<"e","a","r","l","y","b","l","i","g","h","t">>
s_lateblight == <<"l","a","t","e","b","l","i","g","h","t">>
s_bacterialspot == <<"b","a","c","t","e","r","i","a","l","s","p","o","t">>
s_powdery_mildew_sp == <<"p","o","w","d","e","r","y"," ","m","i","l","d","e","w">>
s_spider_mite_sp == <<"s","p","i","d","e","r"," ","m","i","t","e">>
s_Late_Blight_sp == <<"L","a","t","e"," ","B","l","i","g","h","t">>
s_Tomato_Late_Blight_sp == <<"T","o","m","a","t","o"," ","L","a","t","e"," ","B","l","i","g","h","t">>
s_tomato_early_blight == <<"t","o","m","a","t","o","_","e","a","r","l","y","_","b","l","i","g","h","t">>
s_EarlyBlight == <<"E","a","r","l","y","B","l","i","g","h","t">>
s_bacterial_spot_2sp == <<"b","a","c","t","e","r","i","a","l"," "," ","s","p","o","t">>
s_Squash_Powdery_Mildew == <<"S","q","u","a","s","h"," ","P","o","w","d","e","r","y","_","M","i","l","d","e","w">>
s_spider_mite_damage == <<"s","p","i","d","e","r","_","m","i","t","e","_","d","a","m","a","g","e">>
s_Pepper_Bacterial_Spot_sp == <<"P","e","p","p","e","r"," ","B","a","c","t","e","r","i","a","l"," ","S","p","o","t">>
s_LATE_BLIGHT == <<"L","A","T","E","_","B","L","I","G","H","T">>
s_Spider_Mite_padded == <<" ","S","p","i","d","e","r","_","M","i","t","e"," ">>

(***************************************************************************)
(* src/model/config.py                                                     *)
(***************************************************************************)
\* OPTIMAL_RANGES, in dict order; each range is (min, max)
OPTIMAL_RANGES ==
    << [param |-> "temperature",   range |-> <<R(18), R(30)>>],
       [param |-> "humidity",      range |-> <<R(40), R(70)>>],
       [param |-> "soil_moisture", range |-> <<R(30), R(70)>>],
       [param |-> "ph",            range |-> <<R(6), Rat(15, 2)>>] >>

optimal_range(param) ==
    OPTIMAL_RANGES[CHOOSE i \in 1..Len(OPTIMAL_RANGES) : OPTIMAL_RANGES[i].param = param].range

(***************************************************************************)
(* src/model/utils/disease_classifier.py                                   *)
(***************************************************************************)
\* DiseaseClassifier._get_default_classes
_get_default_classes ==
    << s_healthy, s_blight, s_leaf_spot, s_rust, s_mildew, s_virus_disease,
       s_anthracnose, s_rot_disease, s_scab, s_pest_damage, s_bacterial_disease >>

\* one DiseaseInfo of the classifier
DiseaseInfo(name, type, severity, impact_score, spreading_rate, treatment_priority) ==
    [name |-> name, type |-> type, severity |-> severity,
     impact_score |-> R(impact_score), spreading_rate |-> spreading_rate,
     treatment_priority |-> treatment_priority]

\* consolidated_disease_info of _build_disease_database
consolidated_disease_info ==
    << DiseaseInfo(s_healthy,           "environmental", "low",     0, "none",   1),
       DiseaseInfo(s_blight,            "fungal",        "high",   85, "fast",   5),
       DiseaseInfo(s_leaf_spot,         "fungal",        "medium", 60, "medium", 3),
       DiseaseInfo(s_rust,              "fungal",        "medium", 65, "medium", 3),
       DiseaseInfo(s_mildew,            "fungal",        "medium", 55, "medium", 3),
       DiseaseInfo(s_virus_disease,     "viral",         "high",   80, "fast",   4),
       DiseaseInfo(s_anthracnose,       "fungal",        "medium", 65, "medium", 3),
       DiseaseInfo(s_rot_disease,       "fungal",        "high",   75, "medium", 4),
       DiseaseInfo(s_scab,              "fungal",        "medium", 50, "slow",   2),
       DiseaseInfo(s_pest_damage,       "pest",          "medium", 55, "medium", 3),
       DiseaseInfo(s_bacterial_disease, "bacterial",     "high",   70, "fast",   4) >>

\* DiseaseClassifier._classify_unknown_disease
_classify_unknown_disease(disease_name) ==
    LET disease_lower == lower(disease_name)
    IN  IF \E keyword \in {s_kw_critical, s_kw_severe, s_kw_wilt, s_kw_death, s_kw_dead} :
               contains(disease_lower, keyword)
        THEN DiseaseInfo(disease_name, "fungal", "critical", 90, "fast", 5)
        ELSE DiseaseInfo(disease_name, "fungal", "medium", 50, "medium", 2)

\* DiseaseClassifier._build_disease_database: one entry per class name, in the
\* order of first insertion
_build_disease_database(classes) ==
    LET first(i) == \A j \in 1..(i - 1) : classes[j] # classes[i]
        idx == SelectSeq([i \in 1..Len(classes) |-> i], first)
        info(disease_name) ==
            IF \E k \in 1..Len(consolidated_disease_info) :
                   consolidated_disease_info[k].name = disease_name
            THEN consolidated_disease_info[
                     CHOOSE k \in 1..Len(consolidated_disease_info) :
                         consolidated_disease_info[k].name = disease_name]
            ELSE _classify_unknown_disease(disease_name)
    IN  [k \in 1..Len(idx) |-> info(classes[idx[k]])]

\* dict.get on an insertion-ordered dict keyed by name: the entry or None
dict_get(db, key) ==
    IF \E i \in 1..Len(db) : db[i].name = key
    THEN db[CHOOSE i \in 1..Len(db) : db[i].name = key]
    ELSE None

\* DiseaseClassifier.get_disease_info
get_disease_info(db, disease_name) == dict_get(db, disease_name)

\* classify_detection with the impact left unadjusted by the confidence
classify_detection_unweighted(db, class_name, confidence) ==
    LET disease_info == dict_get(db, class_name)
    IN  IF disease_info = None
        THEN [class_name |-> class_name,
              type |-> "unknown",
              severity |-> "unknown",
              impact_score |-> R(50),
              confidence |-> confidence,
              treatment_priority |-> 2,
              weighted_impact |-> R(50)]
        ELSE [class_name |-> class_name,
              type |-> disease_info.type,
              severity |-> disease_info.severity,
              impact_score |-> disease_info.impact_score,
              confidence |-> confidence,
              treatment_priority |-> disease_info.treatment_priority,
              spreading_rate |-> disease_info.spreading_rate,
              weighted_impact |-> disease_info.impact_score]

\* classify_detection with the default record's priority taken as urgent
classify_detection_default_urgent(db, class_name, confidence) ==
    LET disease_info == dict_get(db, class_name)
    IN  IF disease_info = None
        THEN [class_name |-> class_name,
              type |-> "unknown",
              severity |-> "unknown",
              impact_score |-> R(50),
              confidence |-> confidence,
              treatment_priority |-> 4,
              weighted_impact |-> RMul(R(50), confidence)]
        ELSE [class_name |-> class_name,
              type |-> disease_info.type,
              severity |-> disease_info.severity,
              impact_score |-> disease_info.impact_score,
              confidence |-> confidence,
              treatment_priority |-> disease_info.treatment_priority,
              spreading_rate |-> disease_info.spreading_rate,
              weighted_impact |-> RMul(disease_info.impact_score, confidence)]

\* DiseaseClassifier.classify_detection
classify_detection(db, class_name, confidence) ==
    LET disease_info == get_disease_info(db, class_name)
    IN  IF disease_info = None
        THEN [class_name |-> class_name,
              type |-> "unknown",
              severity |-> "unknown",
              impact_score |-> R(50),
              confidence |-> confidence,
              treatment_priority |-> 2,
              weighted_impact |-> RMul(R(50), confidence)]
        ELSE [class_name |-> class_name,
              type |-> disease_info.type,
              severity |-> disease_info.severity,
              impact_score |-> disease_info.impact_score,
              confidence |-> confidence,
              treatment_priority |-> disease_info.treatment_priority,
              spreading_rate |-> disease_info.spreading_rate,
              weighted_impact |-> RMul(disease_info.impact_score, confidence)]

\* get_treatment_recommendations with the urgent text put after the template
get_treatment_recommendations_urgent_last(db, disease_name) ==
    LET disease_info == get_disease_info(db, disease_name)
        recommendations ==
            CASE disease_info.type = "fungal" ->
                   << "Apply appropriate fungicide treatment",
                      "Improve air circulation around plants",
                      "Avoid overhead watering" >>
              [] disease_info.type = "bacterial" ->
                   << "Remove and destroy infected plant material",
                      "Apply copper-based bactericide if available",
                      "Avoid working with wet plants" >>
              [] disease_info.type = "viral" ->
                   << "Remove infected plants to prevent spread",
                      "Control insect vectors",
                      "Use virus-free planting material" >>
              [] disease_info.type = "pest" ->
                   << "Apply appropriate insecticide or miticide",
                      "Use biological control methods if available",
                      "Monitor pest population regularly" >>
              [] OTHER -> << >>
    IN  IF disease_info = None
        THEN << "Consult agricultural expert for proper diagnosis" >>
        ELSE IF disease_info.severity \in {"high", "critical"}
             THEN recommendations \o << "URGENT: Take immediate action" >>
             ELSE recommendations

\* DiseaseClassifier.get_treatment_recommendations
get_treatment_recommendations(db, disease_name) ==
    LET disease_info == get_disease_info(db, disease_name)
        recommendations ==
            CASE disease_info.type = "fungal" ->
                   << "Apply appropriate fungicide treatment",
                      "Improve air circulation around plants",
                      "Avoid overhead watering" >>
              [] disease_info.type = "bacterial" ->
                   << "Remove and destroy infected plant material",
                      "Apply copper-based bactericide if available",
                      "Avoid working with wet plants" >>
              [] disease_info.type = "viral" ->
                   << "Remove infected plants to prevent spread",
                      "Control insect vectors",
                      "Use virus-free planting material" >>
              [] disease_info.type = "pest" ->
                   << "Apply appropriate insecticide or miticide",
                      "Use biological control methods if available",
                      "Monitor pest population regularly" >>
              [] OTHER -> << >>
    IN  IF disease_info = None
        THEN << "Consult agricultural expert for proper diagnosis" >>
        ELSE IF disease_info.severity \in {"high", "critical"}
             THEN << "URGENT: Take immediate action" >> \o recommendations
             ELSE recommendations

(***************************************************************************)
(* src/model/utils/health_scorer.py                                        *)
(***************************************************************************)
\* getattr(sensor_data, param, None)
getattr(sensor, param) ==
    CASE param = "temperature"   -> sensor.temperature
      [] param = "humidity"      -> sensor.humidity
      [] param = "soil_moisture" -> sensor.soil_moisture
      [] param = "ph"            -> sensor.ph

\* HealthScorer._analyze_detections: the loop over the first n detections
RECURSIVE analyze_loop(_, _, _)
analyze_loop(db, dets, n) ==
    IF n = 0
    THEN [classified_detections |-> <<>>, total_impact |-> R(0),
          max_priority |-> 0, affected_area |-> R(0)]
    ELSE LET acc == analyze_loop(db, dets, n - 1)
             detection == dets[n]
             base == classify_detection(db, detection.class_name, detection.confidence)
             classification ==
                 [f \in DOMAIN base \cup {"area"} |->
                     IF f = "area" THEN detection.area ELSE base[f]]
         IN  [classified_detections |-> Append(acc.classified_detections, classification),
              total_impact |-> RAdd(acc.total_impact, classification.weighted_impact),
              max_priority |-> IF classification.treatment_priority > acc.max_priority
                               THEN classification.treatment_priority
                               ELSE acc.max_priority,
              affected_area |-> RAdd(acc.affected_area, detection.area)]

\* _analyze_detections listing the classified detections latest first
_analyze_detections_latest_first(db, dets) ==
    LET acc == analyze_loop(db, dets, Len(dets))
    IN  [classified_detections |->
             [i \in 1..Len(dets) |-> acc.classified_detections[Len(dets) + 1 - i]],
         total_impact |-> acc.total_impact,
         max_priority |-> acc.max_priority,
         affected_area |-> acc.affected_area,
         detection_count |-> Len(dets)]

\* HealthScorer._analyze_detections
_analyze_detections(db, dets) ==
    LET acc == analyze_loop(db, dets, Len(dets))
    IN  [classified_detections |-> acc.classified_detections,
         total_impact |-> acc.total_impact,
         max_priority |-> acc.max_priority,
         affected_area |-> acc.affected_area,
         detection_count |-> Len(dets)]

\* _calculate_disease_score with the max(0, ...) floor left out
_calculate_disease_score_no_floor(disease_analysis) ==
    IF disease_analysis.detection_count = 0
    THEN R(100)
    ELSE LET base_impact == RDiv(disease_analysis.total_impact,
                                 R(disease_analysis.detection_count))
             area_penalty == RMin(R(30), RMul(disease_analysis.affected_area, R(100)))
             priority_penalty == R(disease_analysis.max_priority * 5)
         IN  RSub(R(100), RAdd(RAdd(base_impact, area_penalty), priority_penalty))

\* _calculate_disease_score with the min(30, ...) cap of the area penalty left out
_calculate_disease_score_no_cap(disease_analysis) ==
    IF disease_analysis.detection_count = 0
    THEN R(100)
    ELSE LET base_impact == RDiv(disease_analysis.total_impact,
                                 R(disease_analysis.detection_count))
             area_penalty == RMul(disease_analysis.affected_area, R(100))
             priority_penalty == R(disease_analysis.max_priority * 5)
         IN  RMax(R(0), RSub(R(100), RAdd(RAdd(base_impact, area_penalty), priority_penalty)))

\* HealthScorer._calculate_disease_score
_calculate_disease_score(disease_analysis) ==
    IF disease_analysis.detection_count = 0
    THEN R(100)
    ELSE LET base_impact == RDiv(disease_analysis.total_impact,
                                 R(disease_analysis.detection_count))
             area_penalty == RMin(R(30), RMul(disease_analysis.affected_area, R(100)))
             priority_penalty == R(disease_analysis.max_priority * 5)
             total_penalty == RAdd(RAdd(base_impact, area_penalty), priority_penalty)
         IN  RMax(R(0), RSub(R(100), total_penalty))

\* _score_parameter with the bounds of the range taken as outside it
_score_parameter_strict_bounds(value, range) ==
    LET min_val == range[1]
        max_val == range[2]
        range_size == RSub(max_val, min_val)
    IN  IF RLt(min_val, value) /\ RLt(value, max_val)
        THEN R(100)
        ELSE IF RLt(value, min_val)
             THEN RMax(R(0), RSub(R(100), RMul(RDiv(RSub(min_val, value), range_size), R(100))))
             ELSE RMax(R(0), RSub(R(100), RMul(RDiv(RSub(value, max_val), range_size), R(100))))

\* HealthScorer._score_parameter
_score_parameter(value, range) ==
    LET min_val == range[1]
        max_val == range[2]
        range_size == RSub(max_val, min_val)
    IN  IF RLe(min_val, value) /\ RLe(value, max_val)
        THEN R(100)
        ELSE IF RLt(value, min_val)
             THEN RMax(R(0), RSub(R(100), RMul(RDiv(RSub(min_val, value), range_size), R(100))))
             ELSE RMax(R(0), RSub(R(100), RMul(RDiv(RSub(value, max_val), range_size), R(100))))

\* the (param, value) pairs of OPTIMAL_RANGES whose value is not None, in dict order
present_params(sensor) ==
    SelectSeq([i \in 1..Len(OPTIMAL_RANGES) |-> OPTIMAL_RANGES[i]],
              LAMBDA e : getattr(sensor, e.param) # NoValue)

\* _calculate_environmental_score scoring a missing reading as zero
_calculate_environmental_score_absent_zero(sensor) ==
    IF sensor = None
    THEN R(0)
    ELSE LET present == present_params(sensor)
             scores == [i \in 1..Len(present) |->
                           _score_parameter(getattr(sensor, present[i].param),
                                            present[i].range)]
         IN  IF scores # <<>> THEN RMean(scores) ELSE R(0)

\* _calculate_environmental_score counting a missing field as a score of zero
_calculate_environmental_score_missing_as_zero(sensor) ==
    IF sensor = None
    THEN R(75)
    ELSE LET scores == [i \in 1..Len(OPTIMAL_RANGES) |->
                           IF getattr(sensor, OPTIMAL_RANGES[i].param) = NoValue
                           THEN R(0)
                           ELSE _score_parameter(getattr(sensor, OPTIMAL_RANGES[i].param),
                                                 OPTIMAL_RANGES[i].range)]
         IN  RMean(scores)

\* HealthScorer._calculate_environmental_score
_calculate_environmental_score(sensor) ==
    IF sensor = None
    THEN R(75)
    ELSE LET present == present_params(sensor)
             scores == [i \in 1..Len(present) |->
                           _score_parameter(getattr(sensor, present[i].param),
                                            present[i].range)]
         IN  IF scores # <<>> THEN RMean(scores) ELSE R(75)

\* the risk tier of a health score, before any upgrade
risk_from_score(health_score) ==
    IF RLe(R(80), health_score) THEN "low"
    ELSE IF RLe(R(60), health_score) THEN "medium"
    ELSE IF RLe(R(30), health_score) THEN "high"
    ELSE "critical"

\* _determine_risk_level upgrading every tier below critical by one
_determine_risk_level_upgrade_high(health_score, disease_analysis) ==
    LET risk == risk_from_score(health_score)
    IN  IF disease_analysis.max_priority >= 4
        THEN IF risk = "low" THEN "medium"
             ELSE IF risk = "medium" THEN "high"
             ELSE "critical"
        ELSE risk

\* HealthScorer._determine_risk_level
_determine_risk_level(health_score, disease_analysis) ==
    LET risk == risk_from_score(health_score)
    IN  IF disease_analysis.max_priority >= 4
        THEN IF risk = "low" THEN "medium"
             ELSE IF risk = "medium" THEN "high"
             ELSE risk
        ELSE risk

\* _calculate_confidence giving no credit when no reading is supplied
_calculate_confidence_no_sensor_zero(dets, sensor) ==
    LET detection_factor ==
            IF dets # <<>>
            THEN RMul(RMean([i \in 1..Len(dets) |-> dets[i].confidence]), R(100))
            ELSE R(90)
        available_sensors ==
            Cardinality({p \in {"temperature", "humidity", "soil_moisture", "ph"} :
                            getattr(sensor, p) # NoValue})
        sensor_factor ==
            IF sensor # None
            THEN RMul(RDiv(R(available_sensors), R(4)), R(100))
            ELSE R(0)
    IN  RMean(<<detection_factor, sensor_factor>>)

\* HealthScorer._calculate_confidence
_calculate_confidence(dets, sensor) ==
    LET detection_factor ==
            IF dets # <<>>
            THEN RMul(RMean([i \in 1..Len(dets) |-> dets[i].confidence]), R(100))
            ELSE R(90)
        available_sensors ==
            Cardinality({p \in {"temperature", "humidity", "soil_moisture", "ph"} :
                            getattr(sensor, p) # NoValue})
        sensor_factor ==
            IF sensor # None
            THEN RMul(RDiv(R(available_sensors), R(4)), R(100))
            ELSE R(50)
    IN  RMean(<<detection_factor, sensor_factor>>)

\* _get_environmental_recommendations with the two temperature texts exchanged
_get_environmental_recommendations_swapped(sensor) ==
    LET below(p) == RLt(getattr(sensor, p), optimal_range(p)[1])
        above(p) == RLt(optimal_range(p)[2], getattr(sensor, p))
        advice(p, low, high) ==
            IF getattr(sensor, p) = NoValue THEN <<>>
            ELSE IF below(p) THEN <<low>>
            ELSE IF above(p) THEN <<high>>
            ELSE <<>>
    IN  advice("temperature", "Provide shade or cooling measures",
                              "Provide protection from cold temperatures")
        \o advice("humidity", "Increase humidity around plants",
                              "Improve ventilation to reduce humidity")
        \o advice("soil_moisture", "Increase watering frequency",
                                   "Reduce watering to prevent root rot")

\* HealthScorer._get_environmental_recommendations
_get_environmental_recommendations(sensor) ==
    LET below(p) == RLt(getattr(sensor, p), optimal_range(p)[1])
        above(p) == RLt(optimal_range(p)[2], getattr(sensor, p))
        advice(p, low, high) ==
            IF getattr(sensor, p) = NoValue THEN <<>>
            ELSE IF below(p) THEN <<low>>
            ELSE IF above(p) THEN <<high>>
            ELSE <<>>
    IN  advice("temperature", "Provide protection from cold temperatures",
                              "Provide shade or cooling measures")
        \o advice("humidity", "Increase humidity around plants",
                              "Improve ventilation to reduce humidity")
        \o advice("soil_moisture", "Increase watering frequency",
                                   "Reduce watering to prevent root rot")

\* the first n items of a list: s[:n]
take(s, n) == SubSeq(s, 1, IF Len(s) < n THEN Len(s) ELSE n)

\* the loop that removes duplicates while preserving order
unique(s) ==
    SelectSeq([i \in 1..Len(s) |-> [rec |-> s[i], i |-> i]],
              LAMBDA e : \A j \in 1..(e.i - 1) : s[j] # e.rec)

\* the disease-specific recommendations of the first n classified detections
RECURSIVE disease_recommendations(_, _, _)
disease_recommendations(db, classified, n) ==
    IF n = 0
    THEN <<>>
    ELSE disease_recommendations(db, classified, n - 1)
         \o take(get_treatment_recommendations(db, classified[n].class_name), 2)

\* _generate_recommendations drawing on the first four classified detections
_generate_recommendations_top_four(db, disease_analysis, sensor) ==
    LET top == take(disease_analysis.classified_detections, 4)
        disease_recs == disease_recommendations(db, top, Len(top))
        env_recs == IF sensor # None THEN _get_environmental_recommendations(sensor) ELSE <<>>
        general == IF disease_analysis.max_priority >= 3
                   THEN << "Schedule follow-up inspection within 3-5 days" >>
                   ELSE <<>>
        kept == unique(disease_recs \o env_recs \o general)
        unique_recs == [i \in 1..Len(kept) |-> kept[i].rec]
    IN  take(unique_recs, 8)

\* _generate_recommendations asking for a follow-up from priority 4 on
_generate_recommendations_priority_four(db, disease_analysis, sensor) ==
    LET top == take(disease_analysis.classified_detections, 3)
        disease_recs == disease_recommendations(db, top, Len(top))
        env_recs == IF sensor # None THEN _get_environmental_recommendations(sensor) ELSE <<>>
        general == IF disease_analysis.max_priority >= 4
                   THEN << "Schedule follow-up inspection within 3-5 days" >>
                   ELSE <<>>
        kept == unique(disease_recs \o env_recs \o general)
        unique_recs == [i \in 1..Len(kept) |-> kept[i].rec]
    IN  take(unique_recs, 8)

\* _generate_recommendations without the limit on the length of the list
_generate_recommendations_no_limit(db, disease_analysis, sensor) ==
    LET top == take(disease_analysis.classified_detections, 3)
        disease_recs == disease_recommendations(db, top, Len(top))
        env_recs == IF sensor # None THEN _get_environmental_recommendations(sensor) ELSE <<>>
        general == IF disease_analysis.max_priority >= 3
                   THEN << "Schedule follow-up inspection within 3-5 days" >>
                   ELSE <<>>
        kept == unique(disease_recs \o env_recs \o general)
    IN  [i \in 1..Len(kept) |-> kept[i].rec]

\* HealthScorer._generate_recommendations
_generate_recommendations(db, disease_analysis, sensor) ==
    LET top == take(disease_analysis.classified_detections, 3)
        disease_recs == disease_recommendations(db, top, Len(top))
        env_recs == IF sensor # None THEN _get_environmental_recommendations(sensor) ELSE <<>>
        general == IF disease_analysis.max_priority >= 3
                   THEN << "Schedule follow-up inspection within 3-5 days" >>
                   ELSE <<>>
        recommendations == disease_recs \o env_recs \o general
        kept == unique(recommendations)
        unique_recs == [i \in 1..Len(kept) |-> kept[i].rec]
    IN  take(unique_recs, 8)

\* HealthScorer._analyze_sensor_data: the dict as its items in insertion order
_analyze_sensor_data(sensor) ==
    IF sensor = None
    THEN <<>>
    ELSE LET present == present_params(sensor)
             status(score) == IF RLe(R(80), score) THEN "optimal"
                              ELSE IF RLe(R(60), score) THEN "acceptable"
                              ELSE "poor"
         IN  [i \in 1..Len(present) |->
                 [param |-> present[i].param,
                  value |-> getattr(sensor, present[i].param),
                  status |-> status(_score_parameter(getattr(sensor, present[i].param),
                                                     present[i].range)),
                  score |-> _score_parameter(getattr(sensor, present[i].param),
                                             present[i].range),
                  optimal_range |-> present[i].range]]

\* overall_health with the two weights exchanged
overall_health_of_swapped(disease_score, env_score) ==
    RAdd(RMul(disease_score, Rat(3, 10)), RMul(env_score, Rat(7, 10)))

\* overall_health = disease_score * disease_weight + env_score * env_weight
overall_health_of(disease_score, env_score) ==
    RAdd(RMul(disease_score, Rat(7, 10)), RMul(env_score, Rat(3, 10)))

\* HealthScorer.calculate_health_score
calculate_health_score(db, dets, sensor) ==
    LET disease_analysis == _analyze_detections(db, dets)
        disease_score == _calculate_disease_score(disease_analysis)
        env_score == _calculate_environmental_score(sensor)
        overall_health == overall_health_of(disease_score, env_score)
    IN  [overall_health |-> overall_health,
         disease_score |-> disease_score,
         environmental_score |-> env_score,
         risk_level |-> _determine_risk_level(overall_health, disease_analysis),
         confidence |-> _calculate_confidence(dets, sensor),
         recommendations |-> _generate_recommendations(db, disease_analysis, sensor),
         detected_issues |-> disease_analysis.classified_detections,
         sensor_analysis |-> _analyze_sensor_data(sensor)]

(***************************************************************************)
(* src/model/utils/crop_database.py                                        *)
(***************************************************************************)
\* CropDatabase._get_severity_from_impact
_get_severity_from_impact(impact_score) ==
    IF RLe(R(90), impact_score) THEN "critical"
    ELSE IF RLe(R(75), impact_score) THEN "high"
    ELSE IF RLe(R(50), impact_score) THEN "medium"
    ELSE "low"

\* one DiseaseInfo of CropDatabase._initialize_disease_database (the descriptive
\* lists affected_crops, symptoms and environmental_factors are never read by a
\* lookup and are left out)
CropEntry(name, type, impact, priority, spread) ==
    [name |-> name, type |-> type, severity |-> _get_severity_from_impact(R(impact)),
     impact_score |-> R(impact), treatment_priority |-> priority,
     spreading_rate |-> spread]

\* CropDatabase.diseases, in insertion order
diseases ==
    <<
    CropEntry(<<"a","n","t","h","r","a","c","n","o","s","e">>, "fungal", 85, 4, "fast"),
    CropEntry(<<"b","l","i","g","h","t">>, "fungal", 90, 5, "fast"),
    CropEntry(<<"r","u","s","t">>, "fungal", 75, 3, "medium"),
    CropEntry(<<"p","o","w","d","e","r","y"," ","m","i","l","d","e","w">>, "fungal", 60, 2, "medium"),
    CropEntry(<<"d","o","w","n","y"," ","m","i","l","d","e","w">>, "fungal", 70, 3, "fast"),
    CropEntry(<<"b","l","a","c","k"," ","r","o","t">>, "fungal", 80, 4, "medium"),
    CropEntry(<<"g","r","a","y"," ","m","o","l","d">>, "fungal", 65, 3, "fast"),
    CropEntry(<<"l","e","a","f"," ","s","p","o","t">>, "fungal", 55, 2, "slow"),
    CropEntry(<<"s","c","a","b">>, "fungal", 70, 3, "medium"),
    CropEntry(<<"s","m","u","t">>, "fungal", 85, 4, "medium"),
    CropEntry(<<"b","a","c","t","e","r","i","a","l"," ","s","p","o","t">>, "bacterial", 80, 4, "fast"),
    CropEntry(<<"b","a","c","t","e","r","i","a","l"," ","b","l","i","g","h","t">>, "bacterial", 85, 5, "fast"),
    CropEntry(<<"b","a","c","t","e","r","i","a","l"," ","w","i","l","t">>, "bacterial", 95, 5, "fast"),
    CropEntry(<<"c","a","n","k","e","r">>, "bacterial", 90, 5, "medium"),
    CropEntry(<<"s","o","f","t"," ","r","o","t">>, "bacterial", 75, 4, "fast"),
    CropEntry(<<"m","o","s","a","i","c"," ","v","i","r","u","s">>, "viral", 70, 3, "medium"),
    CropEntry(<<"c","u","r","l"," ","v","i","r","u","s">>, "viral", 75, 4, "medium"),
    CropEntry(<<"y","e","l","l","o","w"," ","v","i","r","u","s">>, "viral", 80, 4, "fast"),
    CropEntry(<<"s","t","r","e","a","k"," ","d","i","s","e","a","s","e">>, "viral", 85, 4, "fast"),
    CropEntry(<<"s","p","i","d","e","r"," ","m","i","t","e">>, "pest", 60, 2, "fast"),
    CropEntry(<<"a","p","h","i","d">>, "pest", 50, 2, "fast"),
    CropEntry(<<"l","e","a","f"," ","m","i","n","e","r">>, "pest", 40, 1, "medium"),
    CropEntry(<<"w","h","i","t","e","f","l","y">>, "pest", 55, 2, "fast")
    >>

\* CropDatabase.class_mappings, in insertion order
class_mappings ==
    << [name |-> s_tomato_bacterial_leaf_spot_sp, target |-> s_bacterial_spot_sp],
       [name |-> s_tomato_early_blight_sp,        target |-> s_early_blight_sp],
       [name |-> s_tomato_late_blight_sp,         target |-> s_late_blight_sp],
       [name |-> s_potato_early_blight_sp,        target |-> s_early_blight_sp],
       [name |-> s_potato_late_blight_sp,         target |-> s_late_blight_sp],
       [name |-> s_corn_rust_sp,                  target |-> s_rust],
       [name |-> s_wheat_leaf_rust_sp,            target |-> s_rust] >>

\* the fuzzy test of one table key against the lowercased class name
fuzzy_match(disease_name, class_lower) ==
    \/ contains(class_lower, disease_name)
    \/ \E w \in 1..Len(split(disease_name)) : contains(class_lower, split(disease_name)[w])

\* CropDatabase.get_disease_info over a table and an alias map
CropDatabase_get_disease_info(table, mappings, class_name) ==
    LET mapped == dict_get(mappings, class_name)
        class_lower == lower(class_name)
        hits == {i \in 1..Len(table) : fuzzy_match(table[i].name, class_lower)}
    IN  IF dict_get(table, class_name) # None
        THEN dict_get(table, class_name)
        ELSE IF mapped # None /\ dict_get(table, mapped.target) # None
             THEN dict_get(table, mapped.target)
             ELSE IF hits # {}
                  THEN table[CHOOSE i \in hits : \A j \in hits : i <= j]
                  ELSE None

(***************************************************************************)
(* src/model/utils/rag_agent.py                                            *)
(***************************************************************************)
\* SimpleRAGAgent._build_knowledge_base: the dict as its items in insertion order, each
\* advice text as its lines, a line as its indentation and the rest
knowledge_base ==
    << [key |-> s_early_blight,
        advice |-> << [indent |-> 0, text |-> ""],
                    [indent |-> 12, text |-> "Early blight is a common fungal disease affecting tomatoes and potatoes."],
                    [indent |-> 12, text |-> "Symptoms: Dark spots with concentric rings on leaves, yellowing."],
                    [indent |-> 12, text |-> "Treatment: Apply fungicide, improve air circulation, avoid overhead watering."],
                    [indent |-> 12, text |-> "Prevention: Use resistant varieties, crop rotation, proper spacing."],
                    [indent |-> 12, text |-> ""] >>],
       [key |-> s_late_blight,
        advice |-> << [indent |-> 0, text |-> ""],
                    [indent |-> 12, text |-> "Late blight is a serious disease that can destroy crops quickly."],
                    [indent |-> 12, text |-> "Symptoms: Water-soaked spots on leaves, white mold on undersides."],
                    [indent |-> 12, text |-> "Treatment: URGENT - Apply copper or mancozeb fungicide immediately."],
                    [indent |-> 12, text |-> "Prevention: Avoid wet conditions, destroy infected plants, use resistant varieties."],
                    [indent |-> 12, text |-> ""] >>],
       [key |-> s_bacterial_spot,
        advice |-> << [indent |-> 0, text |-> ""],
                    [indent |-> 12, text |-> "Bacterial spot affects tomatoes and peppers."],
                    [indent |-> 12, text |-> "Symptoms: Small dark spots on leaves and fruits."],
                    [indent |-> 12, text |-> "Treatment: Apply copper-based bactericide, remove infected material."],
                    [indent |-> 12, text |-> "Prevention: Use disease-free seeds, avoid overhead watering, good sanitation."],
                    [indent |-> 12, text |-> ""] >>],
       [key |-> s_powdery_mildew,
        advice |-> << [indent |-> 0, text |-> ""],
                    [indent |-> 12, text |-> "Powdery mildew appears as white powdery coating on leaves."],
                    [indent |-> 12, text |-> "Symptoms: White powder on leaf surfaces, stunted growth."],
                    [indent |-> 12, text |-> "Treatment: Apply sulfur or potassium bicarbonate spray."],
                    [indent |-> 12, text |-> "Prevention: Good air circulation, avoid overcrowding, resistant varieties."],
                    [indent |-> 12, text |-> ""] >>],
       [key |-> s_spider_mite,
        advice |-> << [indent |-> 0, text |-> ""],
                    [indent |-> 12, text |-> "Spider mites are tiny pests that cause stippling on leaves."],
                    [indent |-> 12, text |-> "Symptoms: Fine webbing, yellow stippling, leaf bronzing."],
                    [indent |-> 12, text |-> "Treatment: Apply miticide, increase humidity, release beneficial insects."],
                    [indent |-> 12, text |-> "Prevention: Avoid water stress, maintain humidity, regular monitoring."],
                    [indent |-> 12, text |-> ""] >>] >>

\* str.replace('_', ' ')
replace_underscores(s) == [i \in 1..Len(s) |-> IF s[i] = "_" THEN " " ELSE s[i]]

\* str.strip()
RECURSIVE strip(_)
strip(s) ==
    IF s = <<>> THEN s
    ELSE IF s[1] = " " THEN strip(Tail(s))
    ELSE IF s[Len(s)] = " " THEN strip(SubSeq(s, 1, Len(s) - 1))
    ELSE s

\* re.sub(r'\s+', '_', s): every run of blanks becomes one underscore
RECURSIVE sub_whitespace_from(_, _)
sub_whitespace_from(s, i) ==
    IF i > Len(s) THEN <<>>
    ELSE IF s[i] = " "
         THEN (IF i > 1 /\ s[i - 1] = " " THEN <<>> ELSE <<"_">>) \o sub_whitespace_from(s, i + 1)
         ELSE <<s[i]>> \o sub_whitespace_from(s, i + 1)

sub_whitespace(s) == sub_whitespace_from(s, 1)

\* SimpleRAGAgent._simplify_disease_name
_simplify_disease_name(disease_name) ==
    LET simplified == sub_whitespace(strip(replace_underscores(lower(disease_name))))
    IN  IF contains(simplified, s_early_blight_sp) \/ contains(simplified, s_earlyblight)
        THEN s_early_blight
        ELSE IF contains(simplified, s_late_blight_sp) \/ contains(simplified, s_lateblight)
        THEN s_late_blight
        ELSE IF contains(simplified, s_bacterial_spot_sp) \/ contains(simplified, s_bacterialspot)
        THEN s_bacterial_spot
        ELSE IF contains(simplified, s_powdery_mildew_sp)
        THEN s_powdery_mildew
        ELSE IF contains(simplified, s_spider_mite_sp)
        THEN s_spider_mite
        ELSE simplified

\* SimpleRAGAgent._format_advice: the non-blank lines, stripped
_format_advice(raw_advice) ==
    LET lines == SelectSeq(raw_advice, LAMBDA line : line.text # "")
    IN  [i \in 1..Len(lines) |-> lines[i].text]

\* SimpleRAGAgent._get_generic_advice; the summary is the template filled with the name
_get_generic_advice(disease_name) ==
    [disease_name |-> disease_name,
     summary |-> [general_recommendations_for |-> disease_name],
     confidence |-> "low",
     source |-> "generic_guidelines"]

\* _call_huggingface_api taking the text of a response whatever its status
_call_huggingface_api_any_status(response) ==
    IF response.raised
    THEN <<>>
    ELSE IF response.json.kind = "list" /\ Len(response.json.items) > 0
         THEN IF ~response.json.items[1].is_dict
              THEN <<>>
              ELSE IF response.json.items[1].has_text
                   THEN strip(response.json.items[1].generated_text)
                   ELSE <<>>
         ELSE <<>>

\* SimpleRAGAgent._call_huggingface_api, given what requests.post does: it raises, or
\* returns a response with a status and a body; "" is the empty sequence
_call_huggingface_api(response) ==
    IF response.raised
    THEN <<>>
    ELSE IF response.status_code = 200
         THEN IF response.json.kind = "invalid"
              THEN <<>>
              ELSE IF response.json.kind = "list" /\ Len(response.json.items) > 0
                   THEN IF ~response.json.items[1].is_dict
                        THEN <<>>
                        ELSE IF response.json.items[1].has_text
                             THEN strip(response.json.items[1].generated_text)
                             ELSE <<>>
                   ELSE <<>>
         ELSE <<>>

\* SimpleRAGAgent._get_llm_advice
_get_llm_advice(disease_name, service_response) ==
    LET response == _call_huggingface_api(service_response)
    IN  IF response # <<>>
        THEN [disease_name |-> disease_name,
              summary |-> response,
              confidence |-> "medium",
              source |-> "llm_generated"]
        ELSE _get_generic_advice(disease_name)

\* SimpleRAGAgent.get_disease_advice; service_response is what the external service
\* does if it is asked
get_disease_advice(key, disease_name, service_response) ==
    LET simplified_name == _simplify_disease_name(disease_name)
    IN  IF \E i \in 1..Len(knowledge_base) : knowledge_base[i].key = simplified_name
        THEN [disease_name |-> disease_name,
              summary |-> _format_advice(
                              knowledge_base[CHOOSE i \in 1..Len(knowledge_base) :
                                                 knowledge_base[i].key = simplified_name].advice),
              confidence |-> "high",
              source |-> "local_knowledge"]
        ELSE IF key # ""
             THEN _get_llm_advice(disease_name, service_response)
             ELSE _get_generic_advice(disease_name)

\* get_disease_advice reaches requests.post: the label is not in the knowledge base
\* and a key is configured
issues_request(key, disease_name) ==
    /\ \A i \in 1..Len(knowledge_base) :
           knowledge_base[i].key # _simplify_disease_name(disease_name)
    /\ key # ""

(***************************************************************************)
(* utils/plantnet_api.py: PlantNetAPI.  A response of the PlantNet service *)
(* is [raised, status_code, body]; a body is "invalid_json", a JSON list,  *)
(* or a JSON object with its results and the project of its query.  An    *)
(* exception raised inside the code is the value Raises.                   *)
(***************************************************************************)
Raises == [raises |-> TRUE]

\* the loop of _identify_with_working_approach goes on to the next project
Continue == [continue |-> TRUE]

available_projects == <<"all", "weurope", "useful", "k-world-flora", "the-plant-list">>

\* PlantNetAPI._calculate_confidence
PlantNetAPI_calculate_confidence(score) ==
    IF RLe(Rat(7, 10), score) THEN "high"
    ELSE IF RLe(Rat(4, 10), score) THEN "medium"
    ELSE IF RLe(Rat(1, 10), score) THEN "low"
    ELSE "very_low"

\* the record built for one item of the response (the body of the loop of
\* _process_v2_results)
process_item(item) ==
    LET scientific_name == IF item.scientificNameWithoutAuthor # ""
                           THEN item.scientificNameWithoutAuthor
                           ELSE "Unknown species"
    IN  [scientific_name |-> scientific_name,
         common_names |-> item.commonNames,
         family |-> item.family,
         genus |-> item.genus,
         score |-> item.score,
         confidence |-> PlantNetAPI_calculate_confidence(item.score),
         primary_common_name |-> IF item.commonNames # <<>>
                                 THEN item.commonNames[1]
                                 ELSE scientific_name]

\* results.sort(key=score, reverse=True): stable, highest score first
RECURSIVE sort_by_score(_)
sort_by_score(results) ==
    IF results = <<>> THEN <<>>
    ELSE LET last == results[Len(results)]
             sorted == sort_by_score(SubSeq(results, 1, Len(results) - 1))
             \* the entries that stay ahead of last: those scoring at least as much
             ahead == SelectSeq(sorted, LAMBDA r : RLe(last.score, r.score))
             behind == SelectSeq(sorted, LAMBDA r : RLt(r.score, last.score))
         IN  ahead \o <<last>> \o behind

\* PlantNetAPI._process_v2_results; raises when the body is not an object or an item
\* of its results is not one
_process_v2_results(api_response) ==
    IF api_response.kind # "object" THEN Raises
    ELSE IF \E i \in 1..Len(api_response.results) : ~api_response.results[i].is_dict
    THEN Raises
    ELSE LET results == sort_by_score([i \in 1..Len(api_response.results) |->
                                          process_item(api_response.results[i])])
         IN  [success |-> TRUE,
              species_count |-> Len(results),
              best_match |-> IF results # <<>> THEN results[1] ELSE None,
              all_results |-> results,
              query_info |-> [project |-> api_response.project]]

\* PlantNetAPI._create_fallback_result
_create_fallback_result ==
    [success |-> FALSE,
     species_count |-> 0,
     best_match |-> [scientific_name |-> "Unknown species",
                     common_names |-> <<"Unknown plant">>,
                     primary_common_name |-> "Unknown plant",
                     family |-> "Unknown",
                     genus |-> "Unknown",
                     score |-> R(0),
                     confidence |-> "very_low"],
     all_results |-> <<>>,
     query_info |-> [project |-> "all"]]

\* PlantNetAPI._prepare_image: the bytes of the image, or None; an image is bytes, a
\* path (readable or not) or a value of another type
_prepare_image(image) ==
    IF image.kind = "path"
    THEN IF image.readable THEN [bytes |-> image.data] ELSE None
    ELSE IF image.kind = "bytes" THEN [bytes |-> image.data]
    ELSE None

\* one iteration of the loop of _identify_with_working_approach accepting a response
\* of any status
try_project_any_status(response) ==
    IF response.raised THEN Continue
    ELSE IF response.body.kind = "invalid_json" THEN Continue
    ELSE IF _process_v2_results(response.body) = Raises THEN Continue
    ELSE _process_v2_results(response.body)

\* one iteration of the loop of _identify_with_working_approach: the result it
\* returns, or Continue
try_project(response) ==
    IF response.raised THEN Continue
    ELSE IF response.status_code = 200
    THEN IF response.body.kind = "invalid_json" THEN Continue
         ELSE IF _process_v2_results(response.body) = Raises THEN Continue
         ELSE _process_v2_results(response.body)
    ELSE Continue

\* PlantNetAPI._identify_with_working_approach from project number i on, responses[j]
\* being what project j answers when it is asked
RECURSIVE _identify_with_working_approach(_, _)
_identify_with_working_approach(responses, i) ==
    IF i > Len(available_projects) THEN _create_fallback_result
    ELSE IF try_project(responses[i]) = Continue
    THEN _identify_with_working_approach(responses, i + 1)
    ELSE try_project(responses[i])

\* the request of identify_plant reaches the loop over the projects
reaches_projects(key, image) ==
    /\ key # ""
    /\ _prepare_image(image) # None
    /\ _prepare_image(image).bytes # <<>>

\* PlantNetAPI.identify_plant
identify_plant(key, image, responses) ==
    IF reaches_projects(key, image)
    THEN _identify_with_working_approach(responses, 1)
    ELSE _create_fallback_result

(***************************************************************************)
(* main.py: the FastAPI service.  A handler is an operator from the        *)
(* request, the service's state and what the services it calls do, to the  *)
(* HTTP response and, for /predict, the record it stores.  An exception    *)
(* raised inside a handler is a record with the field raises.              *)
(***************************************************************************)
s_image_slash == <<"i", "m", "a", "g", "e", "/">>

startswith(s, prefix) ==
    /\ Len(s) >= Len(prefix)
    /\ SubSeq(s, 1, Len(prefix)) = prefix

\* raise HTTPException(status_code, detail)
HTTPException(status_code, detail) ==
    [raises |-> "HTTPException", status_code |-> status_code, detail |-> detail]

\* any other exception
Exception(name) == [raises |-> name]

\* the response FastAPI sends for an HTTPException that leaves the handler
error_response(exception) ==
    [status_code |-> exception.status_code, detail |-> exception.detail]

\* main.py:173-179: the SensorData built from the sensor_data parameter, or None
parse_sensor_data(sensor_json) ==
    IF sensor_json.kind \in {"absent", "empty"} THEN None
    ELSE IF sensor_json.kind = "invalid_json" THEN None
    ELSE IF sensor_json.unknown_field THEN None
    ELSE sensor_json.fields

\* YOLOInference.predict on a loaded model: the detections, [] when inference raises
YOLOInference_predict(inference) ==
    IF inference.raises THEN <<>> ELSE inference.detections

\* main.py:182-193: the detections scored
run_detection(yolo, inference) ==
    IF yolo # None THEN YOLOInference_predict(inference) ELSE <<>>

\* PlantIdentificationModel(...) of main.py:204-212
PlantIdentificationModel(best_match) ==
    [scientific_name |-> best_match.scientific_name,
     common_names |-> best_match.common_names,
     primary_common_name |-> best_match.primary_common_name,
     family |-> best_match.family,
     genus |-> best_match.genus,
     score |-> best_match.score,
     confidence |-> best_match.confidence]

\* main.py:196-218: the plant identification of the report, or None; plantnet is what
\* the five projects answer and whether the model class rejects the best match
run_plant_identification(key, include_plant_id, image_data, plantnet) ==
    IF include_plant_id /\ key # ""
    THEN LET plant_result == identify_plant(key, [kind |-> "bytes", data |-> image_data],
                                            plantnet.responses)
         IN  IF plant_result.success /\ plant_result.best_match # None
             THEN IF plantnet.rejected THEN None
                  ELSE PlantIdentificationModel(plant_result.best_match)
             ELSE None
    ELSE None

\* main.py:227-252: the record stored and the response built from the assessment
prediction_response(prediction_id, timestamp, image_filename, health_assessment, plant_identification) ==
    [status_code |-> 200,
     stored |-> [prediction_id |-> prediction_id,
                 timestamp |-> timestamp,
                 health_assessment |-> health_assessment,
                 plant_identification |-> plant_identification,
                 image_filename |-> image_filename],
     body |-> [prediction_id |-> prediction_id,
               overall_health |-> health_assessment.overall_health,
               disease_score |-> health_assessment.disease_score,
               environmental_score |-> health_assessment.environmental_score,
               risk_level |-> health_assessment.risk_level,
               confidence |-> health_assessment.confidence,
               detected_diseases |-> health_assessment.detected_issues,
               recommendations |-> health_assessment.recommendations,
               plant_identification |-> plant_identification,
               timestamp |-> timestamp]]

\* an assessment whose confidence is the score of the species identified
species_scored(health_assessment, plant_identification) ==
    IF plant_identification = None THEN health_assessment
    ELSE [health_assessment EXCEPT !.confidence = RMul(plant_identification.score, R(100))]

\* the try block of predict_crop_health with the species deciding the confidence
predict_body_species_scored(db, key, yolo, prediction_id, timestamp, request, inference, plantnet) ==
    IF ~request.image.has_content_type THEN Exception("AttributeError")
    ELSE IF ~startswith(request.image.content_type, s_image_slash)
    THEN HTTPException(400, "File must be an image")
    ELSE IF ~request.image.decodable THEN Exception("UnidentifiedImageError")
    ELSE prediction_response(
             prediction_id, timestamp, request.image.filename,
             species_scored(
                 calculate_health_score(db, run_detection(yolo, inference),
                                        parse_sensor_data(request.sensor_data)),
                 run_plant_identification(key, request.include_plant_id,
                                          request.image.data, plantnet)),
             run_plant_identification(key, request.include_plant_id,
                                      request.image.data, plantnet))

\* the try block of predict_crop_health with a detector that is not loaded failing
\* the request
predict_body_detector_required(db, key, yolo, prediction_id, timestamp, request, inference, plantnet) ==
    IF ~request.image.has_content_type THEN Exception("AttributeError")
    ELSE IF ~startswith(request.image.content_type, s_image_slash)
    THEN HTTPException(400, "File must be an image")
    ELSE IF ~request.image.decodable THEN Exception("UnidentifiedImageError")
    ELSE IF yolo = None THEN Exception("AttributeError")
    ELSE prediction_response(
             prediction_id, timestamp, request.image.filename,
             calculate_health_score(db, run_detection(yolo, inference),
                                    parse_sensor_data(request.sensor_data)),
             run_plant_identification(key, request.include_plant_id,
                                      request.image.data, plantnet))

\* the try block of predict_crop_health (main.py:161-252): the response and the
\* record stored, or the exception raised
predict_body(db, key, yolo, prediction_id, timestamp, request, inference, plantnet) ==
    IF ~request.image.has_content_type THEN Exception("AttributeError")
    ELSE IF ~startswith(request.image.content_type, s_image_slash)
    THEN HTTPException(400, "File must be an image")
    ELSE IF ~request.image.decodable THEN Exception("UnidentifiedImageError")
    ELSE prediction_response(
             prediction_id, timestamp, request.image.filename,
             calculate_health_score(db, run_detection(yolo, inference),
                                    parse_sensor_data(request.sensor_data)),
             run_plant_identification(key, request.include_plant_id,
                                      request.image.data, plantnet))

\* the except Exception of main.py:254-256: whatever the try block raises, the
\* HTTPException of line 166 included, becomes HTTPException(500) with the detail
\* 'Prediction failed: ' followed by the text of the exception caught (cause names
\* that exception)
prediction_failed(outcome) ==
    IF "raises" \in DOMAIN outcome
    THEN [status_code |-> 500,
          detail |-> "Prediction failed",
          cause |-> outcome.raises,
          stored |-> None]
    ELSE outcome

\* predict_crop_health (POST /predict)
predict_crop_health(db, key, yolo, prediction_id, timestamp, request, inference, plantnet) ==
    prediction_failed(predict_body(db, key, yolo, prediction_id, timestamp, request,
                                   inference, plantnet))

\* str(uuid.uuid4()) of line 162: an id not used before; the n-th id is n
new_prediction_id_reused(store) == 1

new_prediction_id(store) == Cardinality(DOMAIN store) + 1

\* datetime.now().isoformat(): later requests get later timestamps
now(store) == Cardinality(DOMAIN store) + 1

\* predictions_store[prediction_id] = prediction_data, when the handler got that far
store_prediction(store, response) ==
    IF response.stored = None THEN store
    ELSE [id \in DOMAIN store \cup {response.stored.prediction_id} |->
              IF id = response.stored.prediction_id THEN response.stored ELSE store[id]]

\* get_farming_advice (GET /advice/{prediction_id})
get_farming_advice(store, key, prediction_id, service_response) ==
    IF prediction_id \notin DOMAIN store
    THEN error_response(HTTPException(404, "Prediction not found"))
    ELSE LET prediction_data == store[prediction_id]
             health_assessment == prediction_data.health_assessment
             plant_identification == prediction_data.plant_identification
         IN  [status_code |-> 200,
              body |-> [prediction_id |-> prediction_id,
                        overall_health |-> health_assessment.overall_health,
                        risk_level |-> health_assessment.risk_level,
                        immediate_actions |-> health_assessment.recommendations,
                        plant_species |->
                            IF plant_identification # None
                            THEN [scientific_name |-> plant_identification.scientific_name,
                                  common_name |-> plant_identification.primary_common_name,
                                  family |-> plant_identification.family,
                                  confidence |-> plant_identification.confidence]
                            ELSE None,
                        enhanced_advice |->
                            IF health_assessment.detected_issues # <<>>
                            THEN LET enhanced_advice ==
                                         get_disease_advice(
                                             key,
                                             health_assessment.detected_issues[1].class_name,
                                             service_response)
                                 IN  [disease |-> enhanced_advice.disease_name,
                                      detailed_summary |-> enhanced_advice.summary,
                                      confidence |-> enhanced_advice.confidence]
                            ELSE None]]

\* the stored records, the latest timestamp first
sorted_by_timestamp(store) ==
    CHOOSE recent \in [1..Cardinality(DOMAIN store) -> DOMAIN store] :
        /\ \A i, j \in DOMAIN recent : i # j => recent[i] # recent[j]
        /\ \A i, j \in DOMAIN recent :
               i < j => store[recent[i]].timestamp >= store[recent[j]].timestamp

\* list_predictions (GET /predictions)
list_predictions(store, limit) ==
    LET recent == take([i \in 1..Cardinality(DOMAIN store) |->
                           store[sorted_by_timestamp(store)[i]]], limit)
    IN  [status_code |-> 200,
         body |-> [i \in 1..Len(recent) |->
                      [prediction_id |-> recent[i].prediction_id,
                       timestamp |-> recent[i].timestamp,
                       overall_health |-> recent[i].health_assessment.overall_health,
                       risk_level |-> recent[i].health_assessment.risk_level,
                       plant_species |->
                           IF recent[i].plant_identification # None
                           THEN [name |-> recent[i].plant_identification.primary_common_name]
                           ELSE None]]]

\* get_disease_advice of main.py (GET /disease-advice/{disease_name})
disease_advice_endpoint(key, disease_name, service_response) ==
    [status_code |-> 200, body |-> get_disease_advice(key, disease_name, service_response)]

(***************************************************************************)
(* Inputs.                                                                 *)
(***************************************************************************)
MaxDetections == 2

\* the class lists a data.yaml can supply, besides the default classes
YamlClasses == << s_healthy, s_late_blight_sp, s_bacterial_wilt_sp, s_blight >>

ClassLists == {_get_default_classes, YamlClasses}

\* DetectionResult(class_name, confidence, bbox, area); bbox is never read by the scorer
Detection(class_name, confidence, area) ==
    [class_name |-> class_name, confidence |-> confidence, area |-> area]

DetectionPool ==
    { Detection(s_late_blight_sp,       Rat(9, 10), Rat(1, 20)),
      Detection(s_xyz_unrecognized_tag, Rat(3, 5),  Rat(1, 20)),
      Detection(s_blight,               R(0),       R(0)),
      Detection(s_blight,               Rat(9, 10), Rat(1, 2)),
      Detection(s_virus_disease,        R(0),       Rat(1, 20)),
      Detection(s_virus_disease,        R(1),       Rat(1, 5)),
      Detection(s_healthy,              R(1),       Rat(1, 20)),
      Detection(s_healthy,              Rat(1, 2),  R(1)),
      Detection(s_bacterial_disease,    Rat(3, 5),  Rat(1, 10)),
      Detection(s_corn_rust_sp,         Rat(9, 10), Rat(1, 20)),
      Detection(s_Tomato_Blight_sp,     Rat(1, 2),  Rat(1, 10)),
      Detection(s_bacterial_wilt_sp,    R(1),       R(0)) }

DetectionLists == UNION {[1..n -> DetectionPool] : n \in 0..MaxDetections}

\* SensorData(temperature, humidity, soil_moisture, ph)
SensorData(temperature, humidity, soil_moisture, ph) ==
    [temperature |-> temperature, humidity |-> humidity,
     soil_moisture |-> soil_moisture, ph |-> ph]

SensorPool ==
    { None,
      SensorData(NoValue, NoValue, NoValue, NoValue),
      SensorData(R(45), R(55), R(50), Rat(13, 2)),
      SensorData(R(24), R(55), R(50), Rat(13, 2)),
      SensorData(R(18), R(70), R(30), Rat(15, 2)),
      SensorData(R(10), R(80), R(20), R(5)),
      SensorData(R(24), NoValue, NoValue, NoValue),
      SensorData(R(6), NoValue, NoValue, NoValue),
      SensorData(NoValue, R(30), R(80), R(9)),
      SensorData(R(60), R(0), R(100), R(14)),
      SensorData(NoValue, NoValue, R(10), NoValue) }

\* calls with more detections than the three the recommendations are drawn from:
\* up to MaxManyDetections detections, one per label of a smaller pool
MaxManyDetections == 4

ManyDetectionPool ==
    { Detection(s_rust,              Rat(9, 10), Rat(1, 20)),
      Detection(s_pest_damage,       Rat(9, 10), Rat(1, 20)),
      Detection(s_bacterial_disease, Rat(9, 10), Rat(1, 20)),
      Detection(s_virus_disease,     Rat(9, 10), Rat(1, 20)),
      Detection(s_healthy,           Rat(9, 10), Rat(1, 20)) }

ManyDetectionLists == UNION {[1..n -> ManyDetectionPool] : n \in 0..MaxManyDetections}

ManySensorPool ==
    { None,
      SensorData(R(24), R(55), R(50), Rat(13, 2)),
      SensorData(R(45), R(55), R(50), Rat(13, 2)),
      SensorData(R(10), R(80), R(20), R(5)) }

\* the threads that call calculate_health_score on the shared HealthScorer
Threads == {"t1", "t2"}

\* the arguments of the calls the threads make
ConcurrentCalls ==
    { [detections |-> <<>>, sensor_data |-> None],
      [detections |-> << Detection(s_xyz_unrecognized_tag, Rat(3, 5), Rat(1, 20)) >>,
       sensor_data |-> None],
      [detections |-> << Detection(s_late_blight_sp, Rat(9, 10), Rat(1, 20)) >>,
       sensor_data |-> SensorData(R(45), R(55), R(50), Rat(13, 2))],
      [detections |-> << Detection(s_blight, Rat(9, 10), Rat(1, 2)),
                         Detection(s_virus_disease, R(1), Rat(1, 5)) >>,
       sensor_data |-> SensorData(R(10), R(80), R(20), R(5))],
      [detections |-> << Detection(s_healthy, R(1), Rat(1, 20)) >>,
       sensor_data |-> SensorData(R(24), R(55), R(50), Rat(13, 2))],
      [detections |-> << Detection(s_bacterial_disease, Rat(3, 5), Rat(1, 10)) >>,
       sensor_data |-> SensorData(R(6), NoValue, NoValue, NoValue)] }

\* a thread that is not inside a call
IdleThread ==
    [pc |-> "idle", detections |-> <<>>, sensor_data |-> None, disease_analysis |-> None,
     env_score |-> NoValue, recommendations |-> <<>>, assessment |-> None]

\* the values of HUGGINGFACE_API_KEY: unset (the default "") or set
HuggingFaceKeys == {"", "hf_key"}

\* the labels advice is asked for
AdviceNames ==
    { s_early_blight, s_Late_Blight_sp, s_Tomato_Late_Blight_sp, s_tomato_early_blight,
      s_EarlyBlight, s_powdery_mildew_sp, s_Spider_Mite_padded, s_bacterial_spot_2sp,
      s_xyz_unrecognized_tag, s_healthy, s_rust, <<>>,
      s_potato_late_blight_sp, s_Squash_Powdery_Mildew, s_spider_mite_damage,
      s_Pepper_Bacterial_Spot_sp, s_LATE_BLIGHT }

HttpResponse(status_code, json) == [raised |-> FALSE, status_code |-> status_code, json |-> json]

JsonList(items) == [kind |-> "list", items |-> items]

TextItem(generated_text) == [is_dict |-> TRUE, has_text |-> TRUE, generated_text |-> generated_text]

\* what the external text-generation service does with a request: the request raises
\* (timeout, no connection), or a response comes back
ServiceResponses ==
    { [raised |-> TRUE, status_code |-> 0, json |-> [kind |-> "invalid", items |-> <<>>]],
      HttpResponse(503, JsonList(<< TextItem(<<"b","u","s","y">>) >>)),
      HttpResponse(200, [kind |-> "invalid", items |-> <<>>]),
      HttpResponse(200, [kind |-> "object", items |-> <<>>]),
      HttpResponse(200, JsonList(<<>>)),
      HttpResponse(200, JsonList(<< [is_dict |-> FALSE, has_text |-> FALSE,
                                     generated_text |-> <<>>] >>)),
      HttpResponse(200, JsonList(<< [is_dict |-> TRUE, has_text |-> FALSE,
                                     generated_text |-> <<>>] >>)),
      HttpResponse(200, JsonList(<< TextItem(<<>>) >>)),
      HttpResponse(200, JsonList(<< TextItem(<<" "," ">>) >>)),
      HttpResponse(200, JsonList(<< TextItem(<<" ","R","o","t","a","t","e"," ","c","r","o","p","s","."," ">>) >>)) }

\* PlantNet API keys: not configured, configured
PlantNetKeys == {"", "pn_key"}

\* images handed to identify_plant: bytes, no bytes, a file that cannot be read, a
\* file that can, a value of an unsupported type
PlantImages ==
    { [kind |-> "bytes", data |-> <<255, 216>>],
      [kind |-> "bytes", data |-> <<>>],
      [kind |-> "path", readable |-> FALSE, data |-> <<>>],
      [kind |-> "path", readable |-> TRUE, data |-> <<137, 80>>],
      [kind |-> "other"] }

Species(name, commonNames, family, genus, score) ==
    [is_dict |-> TRUE, scientificNameWithoutAuthor |-> name, commonNames |-> commonNames,
     family |-> family, genus |-> genus, score |-> score]

PlantNetResponse(status_code, body) ==
    [raised |-> FALSE, status_code |-> status_code, body |-> body]

PlantNetObject(project, results) ==
    [kind |-> "object", project |-> project, results |-> results]

Tomato == Species("Solanum lycopersicum", <<"Tomato", "Garden tomato">>, "Solanaceae", "Solanum", Rat(8, 10))

Potato == Species("Solanum tuberosum", <<"Potato">>, "Solanaceae", "Solanum", Rat(3, 10))

Unnamed == Species("", <<>>, "", "", Rat(1, 20))

\* answers of a project that end the loop: no species, two species (the lower score
\* first), one species without names
UsableResponses ==
    { PlantNetResponse(200, PlantNetObject("all", <<>>)),
      PlantNetResponse(200, PlantNetObject("all", <<Potato, Tomato>>)),
      PlantNetResponse(200, PlantNetObject("useful", <<Unnamed>>)) }

\* answers after which the loop goes on: the request raises, the project is not
\* found, the body is not JSON, is a list, or lists an item that is not an object
FailingResponses ==
    { [raised |-> TRUE],
      PlantNetResponse(404, PlantNetObject("all", <<Tomato>>)),
      PlantNetResponse(200, [kind |-> "invalid_json"]),
      PlantNetResponse(200, [kind |-> "list"]),
      PlantNetResponse(200, PlantNetObject("all", <<Tomato, [is_dict |-> FALSE]>>)) }

PlantNetResponses == UsableResponses \cup FailingResponses

\* the number of predictions the service stores in a behaviour
MaxPredictions == 2

PredictionIds == 1..MaxPredictions

\* a YOLOInference whose model is loaded
Detector == [model |-> "loaded"]

s_image_jpeg == <<"i", "m", "a", "g", "e", "/", "j", "p", "e", "g">>

s_text_plain == <<"t", "e", "x", "t", "/", "p", "l", "a", "i", "n">>

s_image == <<"i", "m", "a", "g", "e">>

s_application_image == <<"a", "p", "p", "l", "i", "c", "a", "t", "i", "o", "n", "/", "i", "m", "a", "g", "e", "/", "p", "n", "g">>

Upload(has_content_type, content_type, decodable) ==
    [has_content_type |-> has_content_type, content_type |-> content_type,
     decodable |-> decodable, data |-> <<255, 216>>, filename |-> "leaf.jpg"]

\* uploaded files: a JPEG, a text file, two files whose type mentions image without
\* starting with image/, a part without a Content-Type, a JPEG that cannot be decoded
Uploads ==
    { Upload(TRUE, s_image_jpeg, TRUE),
      Upload(TRUE, s_text_plain, TRUE),
      Upload(TRUE, s_image, TRUE),
      Upload(TRUE, s_application_image, TRUE),
      Upload(FALSE, <<>>, TRUE),
      Upload(TRUE, s_image_jpeg, FALSE) }

\* the upload passes the checks of main.py:165-170
Readable(image) ==
    /\ image.has_content_type
    /\ startswith(image.content_type, s_image_slash)
    /\ image.decodable

\* the sensor_data parameter: absent, not JSON, a JSON object of SensorData fields, a
\* JSON object with a key that SensorData does not have
SensorJson ==
    { [kind |-> "absent"],
      [kind |-> "invalid_json"],
      [kind |-> "object", unknown_field |-> FALSE,
       fields |-> SensorData(R(6), NoValue, NoValue, NoValue)],
      [kind |-> "object", unknown_field |-> TRUE,
       fields |-> SensorData(R(24), NoValue, NoValue, NoValue)] }

\* what the model does with the image: inference raises, finds nothing, finds late
\* blight
InferenceOutcomes ==
    { [raises |-> TRUE, detections |-> <<>>],
      [raises |-> FALSE, detections |-> <<>>],
      [raises |-> FALSE,
       detections |-> <<Detection(s_late_blight_sp, Rat(9, 10), Rat(1, 20))>>] }

\* the detector is not asked
NoInference == [raises |-> FALSE, detections |-> <<>>]

PlantOutcome(first, second, third, rejected) ==
    [responses |-> <<first, second, third, [raised |-> TRUE], [raised |-> TRUE]>>,
     rejected |-> rejected]

\* what PlantNet does during a /predict request: every project fails; the first
\* names two species; the first names none; the third names one; the first names
\* two and PlantIdentificationModel rejects the best match
PlantOutcomes ==
    { PlantOutcome([raised |-> TRUE], [raised |-> TRUE], [raised |-> TRUE], FALSE),
      PlantOutcome(PlantNetResponse(200, PlantNetObject("all", <<Potato, Tomato>>)),
                   [raised |-> TRUE], [raised |-> TRUE], FALSE),
      PlantOutcome(PlantNetResponse(200, PlantNetObject("all", <<>>)),
                   [raised |-> TRUE], [raised |-> TRUE], FALSE),
      PlantOutcome([raised |-> TRUE],
                   PlantNetResponse(404, PlantNetObject("all", <<Tomato>>)),
                   PlantNetResponse(200, PlantNetObject("useful", <<Unnamed>>)), FALSE),
      PlantOutcome(PlantNetResponse(200, PlantNetObject("all", <<Potato, Tomato>>)),
                   [raised |-> TRUE], [raised |-> TRUE], TRUE) }

\* PlantNet is not asked
NoPlantCall == [responses |-> <<>>, rejected |-> FALSE]

\* the labels asked of /disease-advice
EndpointNames == {s_late_blight_sp, s_Tomato_Late_Blight_sp, s_rust}

\* what the text-generation service does during a request of the API
EndpointServiceResponses ==
    { [raised |-> TRUE, status_code |-> 0, json |-> [kind |-> "invalid", items |-> <<>>]],
      HttpResponse(200, JsonList(<< TextItem(<<"R","o","t","a","t","e">>) >>)) }

\* the text-generation service is not asked
NoServiceCall == [raised |-> TRUE, status_code |-> 0, json |-> [kind |-> "invalid", items |-> <<>>]]

\* the limit parameter of /predictions
Limits == {1, 20}

\* the values a parameter is scored at: the bounds of its range, its middle, and
\* points up to ParamSteps half-widths outside it on either side
ParamSteps == 3

ParamValues(range) ==
    LET half == RDiv(RSub(range[2], range[1]), R(2))
    IN  {RSub(range[1], RMul(R(k), half)) : k \in 0..ParamSteps}
        \cup {RAdd(range[2], RMul(R(k), half)) : k \in 0..ParamSteps}
        \cup {RAdd(range[1], half)}

Labels == {d.class_name : d \in DetectionPool}
              \cup {class_mappings[i].name : i \in 1..Len(class_mappings)}

(***************************************************************************)
(* The state machine.                                                      *)
(***************************************************************************)
\* HealthScorer.__init__ -> DiseaseClassifier.__init__
Init ==
    /\ disease_classes \in ClassLists
    /\ disease_db = _build_disease_database(disease_classes)
    /\ pc = "idle"
    /\ detections = <<>>
    /\ sensor_data = None
    /\ assessment = None
    /\ crop_label = NoValue
    /\ crop_info = None
    /\ call = None
    /\ optimal_ranges = OPTIMAL_RANGES
    /\ threads = [t \in Threads |-> IdleThread]
    /\ huggingface_key = ""
    /\ api_key = ""
    /\ yolo_inference = None
    /\ predictions_store = <<>>

\* one call of HealthScorer.calculate_health_score
Score ==
    /\ pc = "idle"
    /\ \E dets \in DetectionLists, sensor \in SensorPool :
          /\ detections' = dets
          /\ sensor_data' = sensor
          /\ assessment' = calculate_health_score(disease_db, dets, sensor)
    /\ pc' = "scored"
    /\ UNCHANGED <<disease_classes, disease_db, optimal_ranges, huggingface_key, api_key, yolo_inference,
                   predictions_store, threads, crop_label, crop_info, call>>

\* one call of CropDatabase.get_disease_info
Lookup ==
    /\ pc = "idle"
    /\ \E class_name \in Labels :
          /\ crop_label' = class_name
          /\ crop_info' = CropDatabase_get_disease_info(diseases, class_mappings, class_name)
    /\ pc' = "looked_up"
    /\ UNCHANGED <<disease_classes, disease_db, optimal_ranges, huggingface_key, api_key, yolo_inference,
                   predictions_store, threads, detections, sensor_data, assessment, call>>

\* the caller takes the result; the scorer and the databases keep nothing of the call
Return ==
    /\ pc \notin {"idle", "advice_requesting", "identifying", "starting"}
    /\ pc' = "idle"
    /\ detections' = <<>>
    /\ sensor_data' = None
    /\ assessment' = None
    /\ crop_label' = NoValue
    /\ crop_info' = None
    /\ call' = None
    /\ UNCHANGED <<disease_classes, disease_db, optimal_ranges, huggingface_key, api_key, yolo_inference,
                   predictions_store, threads>>

\* one call of HealthScorer._score_parameter, possibly right after another one
ScoreParameter ==
    /\ pc \in {"idle", "param_scored"}
    /\ \E i \in 1..Len(OPTIMAL_RANGES) :
          \E value \in ParamValues(OPTIMAL_RANGES[i].range) :
              call' = [op |-> "_score_parameter",
                       param |-> OPTIMAL_RANGES[i].param,
                       value |-> value,
                       optimal_range |-> OPTIMAL_RANGES[i].range,
                       result |-> _score_parameter(value, OPTIMAL_RANGES[i].range)]
    /\ pc' = "param_scored"
    /\ UNCHANGED <<disease_classes, disease_db, optimal_ranges, huggingface_key, api_key, yolo_inference,
                   predictions_store, threads, detections, sensor_data, assessment,
                   crop_label, crop_info>>

\* one call of HealthScorer._get_environmental_recommendations on a supplied reading
GetEnvironmentalRecommendations ==
    /\ pc = "idle"
    /\ \E sensor \in SensorPool \ {None} :
          call' = [op |-> "_get_environmental_recommendations",
                   sensor_data |-> sensor,
                   result |-> _get_environmental_recommendations(sensor)]
    /\ pc' = "env_recommended"
    /\ UNCHANGED <<disease_classes, disease_db, optimal_ranges, huggingface_key, api_key, yolo_inference,
                   predictions_store, threads, detections, sensor_data, assessment,
                   crop_label, crop_info>>

\* one call of DiseaseClassifier.get_treatment_recommendations
GetTreatmentRecommendations ==
    /\ pc = "idle"
    /\ \E disease_name \in Labels :
          call' = [op |-> "get_treatment_recommendations",
                   disease_name |-> disease_name,
                   result |-> get_treatment_recommendations(disease_db, disease_name)]
    /\ pc' = "treatment_recommended"
    /\ UNCHANGED <<disease_classes, disease_db, optimal_ranges, huggingface_key, api_key, yolo_inference,
                   predictions_store, threads, detections, sensor_data, assessment,
                   crop_label, crop_info>>

Next ==
    \/ Score
    \/ Lookup
    \/ ScoreParameter
    \/ GetEnvironmentalRecommendations
    \/ GetTreatmentRecommendations
    \/ Return

\* one call of HealthScorer.calculate_health_score with up to MaxManyDetections detections
ScoreMany ==
    /\ pc = "idle"
    /\ \E dets \in ManyDetectionLists, sensor \in ManySensorPool :
          /\ detections' = dets
          /\ sensor_data' = sensor
          /\ assessment' = calculate_health_score(disease_db, dets, sensor)
    /\ pc' = "scored"
    /\ UNCHANGED <<disease_classes, disease_db, optimal_ranges, huggingface_key, api_key, yolo_inference,
                   predictions_store, threads, crop_label, crop_info, call>>

NextMany == ScoreMany \/ Return

\* SimpleRAGAgent.__init__, with HUGGINGFACE_API_KEY set or not (config.py:47)
InitAdvice ==
    /\ disease_classes = _get_default_classes
    /\ disease_db = _build_disease_database(disease_classes)
    /\ pc = "idle"
    /\ detections = <<>>
    /\ sensor_data = None
    /\ assessment = None
    /\ crop_label = NoValue
    /\ crop_info = None
    /\ call = None
    /\ optimal_ranges = OPTIMAL_RANGES
    /\ threads = [t \in Threads |-> IdleThread]
    /\ huggingface_key \in HuggingFaceKeys
    /\ api_key = ""
    /\ yolo_inference = None
    /\ predictions_store = <<>>

\* SimpleRAGAgent.get_disease_advice up to its return or to the request it sends to
\* the external service; requests counts the requests sent during the call
GetDiseaseAdvice ==
    /\ pc = "idle"
    /\ \E disease_name \in AdviceNames :
          IF issues_request(huggingface_key, disease_name)
          THEN /\ call' = [op |-> "get_disease_advice",
                           disease_name |-> disease_name,
                           requests |-> 1]
               /\ pc' = "advice_requesting"
          ELSE /\ call' = [op |-> "get_disease_advice",
                           disease_name |-> disease_name,
                           requests |-> 0,
                           result |-> get_disease_advice(huggingface_key, disease_name, None)]
               /\ pc' = "advised"
    /\ UNCHANGED <<disease_classes, disease_db, optimal_ranges, huggingface_key, api_key, yolo_inference,
                   predictions_store, threads,
                   detections, sensor_data, assessment, crop_label, crop_info>>

\* ServiceResponds sending the request once more after a failed one
ServiceResponds_retrying ==
    /\ pc = "advice_requesting"
    /\ \E service_response \in ServiceResponses :
          IF _call_huggingface_api(service_response) = <<>> /\ call.requests < 2
          THEN /\ call' = [call EXCEPT !.requests = 2]
               /\ pc' = "advice_requesting"
          ELSE /\ call' = [op |-> call.op,
                           disease_name |-> call.disease_name,
                           requests |-> call.requests,
                           service_response |-> service_response,
                           result |-> get_disease_advice(huggingface_key, call.disease_name,
                                                         service_response)]
               /\ pc' = "advised"
    /\ UNCHANGED <<disease_classes, disease_db, optimal_ranges, huggingface_key, api_key, yolo_inference,
                   predictions_store, threads,
                   detections, sensor_data, assessment, crop_label, crop_info>>

\* requests.post returns or raises, and get_disease_advice runs to its return
ServiceResponds ==
    /\ pc = "advice_requesting"
    /\ \E service_response \in ServiceResponses :
          call' = [op |-> call.op,
                   disease_name |-> call.disease_name,
                   requests |-> call.requests,
                   service_response |-> service_response,
                   result |-> get_disease_advice(huggingface_key, call.disease_name,
                                                 service_response)]
    /\ pc' = "advised"
    /\ UNCHANGED <<disease_classes, disease_db, optimal_ranges, huggingface_key, api_key, yolo_inference,
                   predictions_store, threads,
                   detections, sensor_data, assessment, crop_label, crop_info>>

NextAdvice == GetDiseaseAdvice \/ ServiceResponds \/ Return

\* the advice agent
SpecAdvice == InitAdvice /\ [][NextAdvice]_vars

\* thread t enters calculate_health_score with arguments of its choice
Call(t) ==
    /\ threads[t].pc = "idle"
    /\ \E args \in ConcurrentCalls :
          threads' = [threads EXCEPT ![t] =
                         [IdleThread EXCEPT !.pc = "analyze",
                                            !.detections = args.detections,
                                            !.sensor_data = args.sensor_data]]
    /\ UNCHANGED <<disease_classes, disease_db, optimal_ranges, huggingface_key, api_key, yolo_inference,
                   predictions_store, pc, detections, sensor_data,
                   assessment, crop_label, crop_info, call>>

\* Analyze writing a record for every label it did not find into the table
Analyze_memoizing(t) ==
    /\ threads[t].pc = "analyze"
    /\ threads' = [threads EXCEPT
                      ![t].disease_analysis = _analyze_detections(disease_db, threads[t].detections),
                      ![t].pc = "environment"]
    /\ disease_db' =
           disease_db \o
               [i \in 1..Len(SelectSeq(threads[t].detections,
                                       LAMBDA d : dict_get(disease_db, d.class_name) = None)) |->
                   _classify_unknown_disease(
                       SelectSeq(threads[t].detections,
                                 LAMBDA d : dict_get(disease_db, d.class_name) = None)[i].class_name)]
    /\ UNCHANGED <<disease_classes, optimal_ranges, huggingface_key, api_key, yolo_inference,
                   predictions_store, pc, detections, sensor_data,
                   assessment, crop_label, crop_info, call>>

\* thread t at health_scorer.py:73: disease_analysis = self._analyze_detections(detections)
Analyze(t) ==
    /\ threads[t].pc = "analyze"
    /\ threads' = [threads EXCEPT
                      ![t].disease_analysis = _analyze_detections(disease_db, threads[t].detections),
                      ![t].pc = "environment"]
    /\ UNCHANGED <<disease_classes, disease_db, optimal_ranges, huggingface_key, api_key, yolo_inference,
                   predictions_store, pc, detections, sensor_data,
                   assessment, crop_label, crop_info, call>>

\* thread t at health_scorer.py:77: env_score = self._calculate_environmental_score(sensor_data)
ScoreEnvironment(t) ==
    /\ threads[t].pc = "environment"
    /\ threads' = [threads EXCEPT
                      ![t].env_score = _calculate_environmental_score(threads[t].sensor_data),
                      ![t].pc = "recommend"]
    /\ UNCHANGED <<disease_classes, disease_db, optimal_ranges, huggingface_key, api_key, yolo_inference,
                   predictions_store, pc, detections, sensor_data,
                   assessment, crop_label, crop_info, call>>

\* thread t at health_scorer.py:92: recommendations = self._generate_recommendations(...)
Recommend(t) ==
    /\ threads[t].pc = "recommend"
    /\ threads' = [threads EXCEPT
                      ![t].recommendations =
                          _generate_recommendations(disease_db, threads[t].disease_analysis,
                                                    threads[t].sensor_data),
                      ![t].pc = "finish"]
    /\ UNCHANGED <<disease_classes, disease_db, optimal_ranges, huggingface_key, api_key, yolo_inference,
                   predictions_store, pc, detections, sensor_data,
                   assessment, crop_label, crop_info, call>>

\* the assessment thread t returns, put together from its locals
assessment_of(thread) ==
    LET disease_score == _calculate_disease_score(thread.disease_analysis)
        overall_health == overall_health_of(disease_score, thread.env_score)
    IN  [overall_health |-> overall_health,
         disease_score |-> disease_score,
         environmental_score |-> thread.env_score,
         risk_level |-> _determine_risk_level(overall_health, thread.disease_analysis),
         confidence |-> _calculate_confidence(thread.detections, thread.sensor_data),
         recommendations |-> thread.recommendations,
         detected_issues |-> thread.disease_analysis.classified_detections,
         sensor_analysis |-> _analyze_sensor_data(thread.sensor_data)]

\* Finish dropping the records of the labels it has treated from the table
Finish_evicting(t) ==
    /\ threads[t].pc = "finish"
    /\ threads' = [threads EXCEPT ![t].assessment = assessment_of(threads[t]),
                                  ![t].pc = "done"]
    /\ disease_db' =
           SelectSeq(disease_db,
                     LAMBDA e : \A i \in 1..Len(threads[t].detections) :
                                    threads[t].detections[i].class_name # e.name)
    /\ UNCHANGED <<disease_classes, optimal_ranges, huggingface_key, api_key, yolo_inference,
                   predictions_store, pc, detections, sensor_data,
                   assessment, crop_label, crop_info, call>>

\* thread t at health_scorer.py:95-110: sensor_analysis and the returned HealthAssessment
Finish(t) ==
    /\ threads[t].pc = "finish"
    /\ threads' = [threads EXCEPT ![t].assessment = assessment_of(threads[t]),
                                  ![t].pc = "done"]
    /\ UNCHANGED <<disease_classes, disease_db, optimal_ranges, huggingface_key, api_key, yolo_inference,
                   predictions_store, pc, detections, sensor_data,
                   assessment, crop_label, crop_info, call>>

\* the caller of thread t lets go of the returned assessment
Release(t) ==
    /\ threads[t].pc = "done"
    /\ threads' = [threads EXCEPT ![t] = IdleThread]
    /\ UNCHANGED <<disease_classes, disease_db, optimal_ranges, huggingface_key, api_key, yolo_inference,
                   predictions_store, pc, detections, sensor_data,
                   assessment, crop_label, crop_info, call>>

NextConcurrent ==
    \E t \in Threads :
        \/ Call(t)
        \/ Analyze(t)
        \/ ScoreEnvironment(t)
        \/ Recommend(t)
        \/ Finish(t)
        \/ Release(t)

\* calls of calculate_health_score from several threads on one HealthScorer
SpecConcurrent == Init /\ [][NextConcurrent]_vars

\* the scorer under calls with many detections
SpecMany == Init /\ [][NextMany]_vars

Spec == Init /\ [][Next]_vars

(***************************************************************************)
(* Calls of PlantNetAPI.identify_plant, one step per project contacted.    *)
(* call.contacted lists the projects a request was sent to, call.answers   *)
(* what each of them answered.                                             *)
(***************************************************************************)
InitPlant ==
    /\ disease_classes = _get_default_classes
    /\ disease_db = _build_disease_database(disease_classes)
    /\ pc = "idle"
    /\ detections = <<>>
    /\ sensor_data = None
    /\ assessment = None
    /\ crop_label = NoValue
    /\ crop_info = None
    /\ call = None
    /\ optimal_ranges = OPTIMAL_RANGES
    /\ threads = [t \in Threads |-> IdleThread]
    /\ huggingface_key = ""
    /\ api_key \in PlantNetKeys
    /\ yolo_inference = None
    /\ predictions_store = <<>>

\* PlantNetAPI.identify_plant up to its return or to the loop over the projects
IdentifyPlant ==
    /\ pc = "idle"
    /\ \E image \in PlantImages :
          IF reaches_projects(api_key, image)
          THEN /\ call' = [op |-> "identify_plant", image |-> image,
                           contacted |-> <<>>, answers |-> <<>>]
               /\ pc' = "identifying"
          ELSE /\ call' = [op |-> "identify_plant", image |-> image,
                           contacted |-> <<>>, answers |-> <<>>,
                           result |-> identify_plant(api_key, image, <<>>)]
               /\ pc' = "identified"
    /\ UNCHANGED <<disease_classes, disease_db, optimal_ranges, huggingface_key, api_key, yolo_inference,
                   predictions_store, threads, detections, sensor_data, assessment,
                   crop_label, crop_info>>

\* one iteration of the loop of _identify_with_working_approach: the next project is
\* sent the request and answers; the call returns or goes on to the following project
ProjectResponds ==
    /\ pc = "identifying"
    /\ \E response \in PlantNetResponses :
          LET contacted == Append(call.contacted,
                                  available_projects[Len(call.contacted) + 1])
              answers == Append(call.answers, response)
              returned == [op |-> call.op, image |-> call.image,
                           contacted |-> contacted, answers |-> answers,
                           result |-> IF try_project(response) # Continue
                                      THEN try_project(response)
                                      ELSE _create_fallback_result]
          IN  IF try_project(response) # Continue \/ Len(contacted) = Len(available_projects)
              THEN /\ call' = returned
                   /\ pc' = "identified"
              ELSE /\ call' = [op |-> call.op, image |-> call.image,
                               contacted |-> contacted, answers |-> answers]
                   /\ pc' = "identifying"
    /\ UNCHANGED <<disease_classes, disease_db, optimal_ranges, huggingface_key, api_key, yolo_inference,
                   predictions_store, threads, detections, sensor_data, assessment,
                   crop_label, crop_info>>

NextPlant == IdentifyPlant \/ ProjectResponds \/ Return

SpecPlant == InitPlant /\ [][NextPlant]_vars

(***************************************************************************)
(* The API service of main.py: startup, then requests, one at a time (the  *)
(* handlers run on one event loop and do not yield between reading and     *)
(* writing predictions_store).  call is the last request with what the     *)
(* services called did and the response sent.                              *)
(***************************************************************************)
InitService ==
    /\ disease_classes = _get_default_classes
    /\ disease_db = _build_disease_database(disease_classes)
    /\ pc = "starting"
    /\ detections = <<>>
    /\ sensor_data = None
    /\ assessment = None
    /\ crop_label = NoValue
    /\ crop_info = None
    /\ call = None
    /\ optimal_ranges = OPTIMAL_RANGES
    /\ threads = [t \in Threads |-> IdleThread]
    /\ huggingface_key \in HuggingFaceKeys
    /\ api_key \in PlantNetKeys
    /\ yolo_inference = None
    /\ predictions_store = <<>>

\* startup_event: YOLOInference() succeeds, or raises and leaves yolo_inference None
Startup ==
    /\ pc = "starting"
    /\ yolo_inference' \in {None, Detector}
    /\ pc' = "idle"
    /\ UNCHANGED <<disease_classes, disease_db, optimal_ranges, huggingface_key, api_key,
                   predictions_store, threads, detections, sensor_data, assessment,
                   crop_label, crop_info, call>>

\* POST /predict
Predict ==
    /\ pc = "idle"
    /\ Cardinality(DOMAIN predictions_store) < MaxPredictions
    /\ \E image \in Uploads :
       \E sensor_json \in (IF Readable(image) THEN SensorJson ELSE {[kind |-> "absent"]}),
          include_plant_id \in (IF Readable(image) THEN BOOLEAN ELSE {TRUE}) :
       \E inference \in (IF Readable(image) /\ yolo_inference # None
                         THEN InferenceOutcomes ELSE {NoInference}),
          plantnet \in (IF Readable(image) /\ include_plant_id /\ api_key # ""
                        THEN PlantOutcomes ELSE {NoPlantCall}) :
          LET request == [image |-> image, sensor_data |-> sensor_json,
                          include_plant_id |-> include_plant_id]
              response == predict_crop_health(disease_db, api_key, yolo_inference,
                                              new_prediction_id(predictions_store),
                                              now(predictions_store),
                                              request, inference, plantnet)
          IN  /\ call' = [op |-> "predict", request |-> request,
                          inference |-> inference, plantnet |-> plantnet,
                          ids_before |-> DOMAIN predictions_store,
                          response |-> response]
              /\ predictions_store' = store_prediction(predictions_store, response)
    /\ pc' = "responded"
    /\ UNCHANGED <<disease_classes, disease_db, optimal_ranges, huggingface_key, api_key, yolo_inference,
                   threads, detections, sensor_data, assessment, crop_label, crop_info>>

\* GET /advice/{prediction_id}
Advice ==
    /\ pc = "idle"
    /\ \E prediction_id \in PredictionIds :
       \E service_response \in
              (IF /\ prediction_id \in DOMAIN predictions_store
                  /\ predictions_store[prediction_id].health_assessment.detected_issues # <<>>
                  /\ issues_request(huggingface_key,
                                    predictions_store[prediction_id].health_assessment
                                        .detected_issues[1].class_name)
               THEN EndpointServiceResponses ELSE {NoServiceCall}) :
          call' = [op |-> "advice", prediction_id |-> prediction_id,
                   service_response |-> service_response,
                   response |-> get_farming_advice(predictions_store, huggingface_key,
                                                   prediction_id, service_response)]
    /\ pc' = "responded"
    /\ UNCHANGED <<disease_classes, disease_db, optimal_ranges, huggingface_key, api_key, yolo_inference,
                   predictions_store, threads, detections, sensor_data, assessment,
                   crop_label, crop_info>>

\* GET /predictions
ListPredictions ==
    /\ pc = "idle"
    /\ \E limit \in Limits :
          call' = [op |-> "predictions", limit |-> limit,
                   response |-> list_predictions(predictions_store, limit)]
    /\ pc' = "responded"
    /\ UNCHANGED <<disease_classes, disease_db, optimal_ranges, huggingface_key, api_key, yolo_inference,
                   predictions_store, threads, detections, sensor_data, assessment,
                   crop_label, crop_info>>

\* GET /disease-advice/{disease_name}
DiseaseAdvice ==
    /\ pc = "idle"
    /\ \E disease_name \in EndpointNames :
       \E service_response \in (IF issues_request(huggingface_key, disease_name)
                                THEN EndpointServiceResponses ELSE {NoServiceCall}) :
          call' = [op |-> "disease_advice", disease_name |-> disease_name,
                   service_response |-> service_response,
                   response |-> disease_advice_endpoint(huggingface_key, disease_name,
                                                        service_response)]
    /\ pc' = "responded"
    /\ UNCHANGED <<disease_classes, disease_db, optimal_ranges, huggingface_key, api_key, yolo_inference,
                   predictions_store, threads, detections, sensor_data, assessment,
                   crop_label, crop_info>>

NextService == Startup \/ Predict \/ Advice \/ ListPredictions \/ DiseaseAdvice \/ Return

SpecService == InitService /\ [][NextService]_vars

(***************************************************************************)
(* Properties.                                                             *)
(***************************************************************************)
\* a well-formed number between 0 and 100
InPercent(x) == x[2] > 0 /\ 0 <= x[1] /\ x[1] <= 100 * x[2]

\* the tier the overall_health thresholds give: >= 80 low, >= 60 medium, >= 30 high
ThresholdTier(h) ==
    IF h[1] >= 80 * h[2] THEN "low"
    ELSE IF h[1] >= 60 * h[2] THEN "medium"
    ELSE IF h[1] >= 30 * h[2] THEN "high"
    ELSE "critical"

\* the tiers ordered by severity
TierRank(tier) ==
    CASE tier = "low" -> 0 [] tier = "medium" -> 1 [] tier = "high" -> 2 [] tier = "critical" -> 3

\* some classified detection of the assessment has treatment priority >= p
SomePriorityAtLeast(p) ==
    \E i \in 1..Len(assessment.detected_issues) :
        assessment.detected_issues[i].treatment_priority >= p

\* C1: every call of calculate_health_score returns an assessment whose
\* disease_score, environmental_score, overall_health and confidence lie in
\* [0,100] and whose risk_level is low, medium, high or critical, whatever the
\* detections (also none) and the sensor reading (absent, or with any fields absent).
C1_AssessmentInRange ==
    pc = "scored" =>
        /\ InPercent(assessment.disease_score)
        /\ InPercent(assessment.environmental_score)
        /\ InPercent(assessment.overall_health)
        /\ InPercent(assessment.confidence)
        /\ assessment.risk_level \in {"low", "medium", "high", "critical"}

\* a call with detections whose penalties exceed 100 and a reading with absent fields
C1_Witness ==
    /\ pc = "scored"
    /\ detections # <<>>
    /\ sensor_data # None
    /\ sensor_data.humidity = NoValue
    /\ assessment.disease_score = R(0)
    /\ InPercent(assessment.overall_health)

\* C2: for a non-empty detection list, disease_score is
\* max(0, 100 - baseImpact - areaPenalty - priorityPenalty) with baseImpact the mean
\* weighted_impact of the classified detections, areaPenalty min(30, 100 x the sum of
\* the detections' areas) and priorityPenalty 5 x the largest treatment priority.
C2_DiseaseScoreFormula ==
    (pc = "scored" /\ detections # <<>>) =>
        LET issues == assessment.detected_issues
            n == Len(issues)
            baseImpact == RDiv(RSum([i \in 1..n |-> issues[i].weighted_impact]), R(n))
            totalArea == RSum([i \in 1..Len(detections) |-> detections[i].area])
            scaled == RMul(totalArea, R(100))
            areaPenalty == IF RLe(R(30), scaled) THEN R(30) ELSE scaled
            maxPriority == CHOOSE m \in {issues[i].treatment_priority : i \in 1..n} :
                               \A i \in 1..n : issues[i].treatment_priority <= m
            raw == RSub(RSub(RSub(R(100), baseImpact), areaPenalty), R(5 * maxPriority))
        IN  assessment.disease_score = IF raw[1] < 0 THEN R(0) ELSE raw

\* two detections whose areas sum above 0.3, the score staying above the floor
C2_Witness ==
    /\ pc = "scored"
    /\ Len(detections) = 2
    /\ RLt(Rat(3, 10), RAdd(detections[1].area, detections[2].area))
    /\ detections[1].confidence # detections[2].confidence
    /\ RLt(R(0), assessment.disease_score)

\* C3: risk_level is the tier of overall_health (>= 80 low, >= 60 medium, >= 30 high,
\* else critical), raised by exactly one tier from low or medium if and only if some
\* classified detection has treatment priority >= 4; high and critical are unchanged,
\* and the result is never lower than, nor more than one tier above, that tier.
C3_RiskLevelEscalation ==
    pc = "scored" =>
        LET tier == ThresholdTier(assessment.overall_health)
            risk == assessment.risk_level
        IN  /\ SomePriorityAtLeast(4) /\ tier = "low" => risk = "medium"
            /\ SomePriorityAtLeast(4) /\ tier = "medium" => risk = "high"
            /\ SomePriorityAtLeast(4) /\ tier \in {"high", "critical"} => risk = tier
            /\ ~SomePriorityAtLeast(4) => risk = tier
            /\ TierRank(tier) <= TierRank(risk)
            /\ TierRank(risk) <= TierRank(tier) + 1

\* an urgent detection on a healthy score: low raised to medium
C3_Witness ==
    /\ pc = "scored"
    /\ SomePriorityAtLeast(4)
    /\ ThresholdTier(assessment.overall_health) = "low"
    /\ assessment.risk_level = "medium"

\* the call of scenario A: one detection {late blight, 0.9, 0.05}, no sensor reading
ScenarioA ==
    /\ pc = "scored"
    /\ detections = << Detection(s_late_blight_sp, Rat(9, 10), Rat(1, 20)) >>
    /\ sensor_data = None

C5_LookupResolutionOrder ==
    pc = "scored" =>
        \A i \in 1..Len(detections) :
            LET record == CropDatabase_get_disease_info(disease_db, class_mappings,
                                                        detections[i].class_name)
                issue == assessment.detected_issues[i]
            IN  IF record = None
                THEN /\ issue.type = "unknown"
                     /\ issue.impact_score = R(50)
                     /\ issue.treatment_priority = 2
                ELSE /\ issue.type = record.type
                     /\ issue.impact_score = record.impact_score
                     /\ issue.treatment_priority = record.treatment_priority

\* the label of detection i is no key of the disease table
Unmatched(i) ==
    \A k \in 1..Len(disease_db) : disease_db[k].name # detections[i].class_name

\* C6 (as claimed): a detection whose label matches no table entry is classified with
\* type unknown, severity tier medium, impact score 50, treatment priority 2 and
\* spread rate medium.
C6_DefaultRecord ==
    pc = "scored" =>
        \A i \in 1..Len(detections) :
            Unmatched(i) =>
                LET issue == assessment.detected_issues[i]
                IN  /\ issue.type = "unknown"
                    /\ issue.severity = "medium"
                    /\ issue.impact_score = R(50)
                    /\ issue.treatment_priority = 2
                    /\ "spreading_rate" \in DOMAIN issue
                    /\ issue.spreading_rate = "medium"

\* C7: every classified detection has weighted_impact = impact_score x confidence,
\* within [0,100]; a label with no table entry has impact_score 50, so that
\* confidence 0.6 gives weighted_impact 30.
C7_WeightedImpact ==
    pc = "scored" =>
        \A i \in 1..Len(detections) :
            LET issue == assessment.detected_issues[i]
            IN  /\ issue.weighted_impact = RMul(issue.impact_score, detections[i].confidence)
                /\ InPercent(issue.weighted_impact)
                /\ Unmatched(i) => issue.impact_score = R(50)
                /\ Unmatched(i) /\ detections[i].confidence = Rat(3, 5)
                       => issue.weighted_impact = R(30)

\* the unknown-label scenario: {xyz_unrecognized_tag, 0.6}
C7_Witness ==
    /\ pc = "scored"
    /\ Len(detections) = 1
    /\ detections[1].class_name = s_xyz_unrecognized_tag
    /\ detections[1].confidence = Rat(3, 5)
    /\ assessment.detected_issues[1].weighted_impact = R(30)

\* C8 (as claimed): every entry of the disease table has the severity tier that its
\* impact score gives (>= 90 critical, >= 75 high, >= 50 medium, otherwise low).
C8_SeverityConsistent ==
    \A k \in 1..Len(disease_db) :
        disease_db[k].severity = _get_severity_from_impact(disease_db[k].impact_score)

\* C9: with no detections disease_score is 100 and nothing is escalated, so risk_level
\* is low whenever environmental_score >= 66.7; with no sensor reading either,
\* overall_health is 92.5 and risk_level is low.
C9_NoDetections ==
    (pc = "scored" /\ detections = <<>>) =>
        /\ assessment.disease_score = R(100)
        /\ assessment.risk_level = ThresholdTier(assessment.overall_health)
        /\ RLe(Rat(667, 10), assessment.environmental_score) => assessment.risk_level = "low"
        /\ sensor_data = None =>
               /\ assessment.overall_health = Rat(185, 2)
               /\ assessment.risk_level = "low"

\* no detections and a reading whose score is below 100 and at least 66.7
C9_Witness ==
    /\ pc = "scored"
    /\ detections = <<>>
    /\ sensor_data # None
    /\ RLe(Rat(667, 10), assessment.environmental_score)
    /\ RLt(assessment.environmental_score, R(100))
    /\ assessment.risk_level = "low"

\* C10: overall_health of the returned assessment is 0.7 x its disease_score
\* + 0.3 x its environmental_score.
C10_OverallHealthWeights ==
    pc = "scored" =>
        RMul(R(10), assessment.overall_health)
            = RAdd(RMul(R(7), assessment.disease_score),
                   RMul(R(3), assessment.environmental_score))

\* detections and a reading with different disease and environmental scores
C10_Witness ==
    /\ pc = "scored"
    /\ detections # <<>>
    /\ sensor_data # None
    /\ RLt(R(0), assessment.disease_score)
    /\ RLt(assessment.disease_score, assessment.environmental_score)
    /\ RLt(assessment.environmental_score, R(100))

\* the distance of a value to the nearest bound of a range, 0 inside it
Distance(value, range) ==
    IF RLt(value, range[1]) THEN RSub(range[1], value)
    ELSE IF RLt(range[2], value) THEN RSub(value, range[2])
    ELSE R(0)

\* 100 inside the range, else max(0, 100 - 100 x distance / (max - min))
ExpectedParamScore(value, range) ==
    LET d == Distance(value, range)
        raw == RSub(R(100), RDiv(RMul(R(100), d), RSub(range[2], range[1])))
    IN  IF d = R(0) THEN R(100) ELSE IF raw[1] < 0 THEN R(0) ELSE raw

\* the score of one call is the one the range gives
C11_ScoreOfCall ==
    pc = "param_scored" =>
        /\ call.result = ExpectedParamScore(call.value, call.optimal_range)
        /\ call.value \in {call.optimal_range[1], call.optimal_range[2]}
               => call.result = R(100)
        /\ call.value = RSub(call.optimal_range[1],
                             RSub(call.optimal_range[2], call.optimal_range[1]))
               => call.result = R(0)

\* of two calls for one parameter, the one farther from the range scores no higher
C11_FartherScoresLower ==
    (/\ pc = "param_scored"
     /\ pc' = "param_scored"
     /\ call'.param = call.param
     /\ RLe(Distance(call.value, call.optimal_range),
            Distance(call'.value, call'.optimal_range)))
        => RLe(call'.result, call.result)

\* C11: for each parameter with optimal range [min, max] the parameter score is 100
\* for every value in [min, max], both bounds included, is
\* max(0, 100 - 100 x distance to the nearest bound / (max - min)) outside it, is 0 at
\* min - (max - min), and never increases as the value moves farther from the range.
C11_ParameterScore == [](C11_ScoreOfCall) /\ [][C11_FartherScoresLower]_vars

\* a call at exactly one range width below the minimum, scoring 0
C11_Witness ==
    /\ pc = "param_scored"
    /\ call.value = RSub(call.optimal_range[1],
                         RSub(call.optimal_range[2], call.optimal_range[1]))
    /\ call.result = R(0)

\* the parameters of the reading of the last call that carry a value
PresentFields ==
    IF sensor_data = None THEN {}
    ELSE {p \in {"temperature", "humidity", "soil_moisture", "ph"} :
             getattr(sensor_data, p) # NoValue}

\* the score of a field of the reading, 0 for a field without a value
FieldScoreOrZero(p) ==
    IF p \in PresentFields
    THEN ExpectedParamScore(getattr(sensor_data, p), optimal_range(p))
    ELSE R(0)

\* C12: environmental_score is the arithmetic mean of the parameter scores of exactly
\* the fields of the reading that are present (an absent field is left out, not scored
\* zero), and is 75.0 when no sensor reading is supplied at all.
C12_EnvironmentalScoreMean ==
    pc = "scored" =>
        IF PresentFields = {}
        THEN assessment.environmental_score = R(75)
        ELSE RMul(assessment.environmental_score, R(Cardinality(PresentFields)))
                 = RSum(<<FieldScoreOrZero("temperature"), FieldScoreOrZero("humidity"),
                          FieldScoreOrZero("soil_moisture"), FieldScoreOrZero("ph")>>)

\* a reading with some fields present and some absent, scored on the present ones only
C12_Witness ==
    /\ pc = "scored"
    /\ Cardinality(PresentFields) \in 1..3
    /\ assessment.environmental_score = R(100)

\* the mean confidence of the detections of the last call, as a percentage, or 90
DetectionSignal ==
    IF detections = <<>> THEN R(90)
    ELSE RDiv(RMul(R(100), RSum([i \in 1..Len(detections) |-> detections[i].confidence])),
              R(Len(detections)))

\* the share of the four fields that are present, as a percentage, or 50
SensorSignal ==
    IF sensor_data = None THEN R(50) ELSE R(25 * Cardinality(PresentFields))

\* C13: the returned confidence is the mean of two signals: the mean detection
\* confidence x 100 (90.0 when there are no detections) and the number of present
\* sensor fields / 4 x 100 (50.0 when no reading is supplied); with neither detections
\* nor a reading it is exactly 70.0.
C13_Confidence ==
    pc = "scored" =>
        /\ assessment.confidence = RDiv(RAdd(DetectionSignal, SensorSignal), R(2))
        /\ (detections = <<>> /\ sensor_data = None) => assessment.confidence = R(70)

\* a call with neither detections nor a reading, returning confidence 70
C13_Witness ==
    /\ pc = "scored"
    /\ detections = <<>>
    /\ sensor_data = None
    /\ assessment.confidence = R(70)

\* the texts of the disease templates, the urgent prefix and the expert referral
DiseaseTexts ==
    { "Apply appropriate fungicide treatment", "Improve air circulation around plants",
      "Avoid overhead watering",
      "Remove and destroy infected plant material",
      "Apply copper-based bactericide if available", "Avoid working with wet plants",
      "Remove infected plants to prevent spread", "Control insect vectors",
      "Use virus-free planting material",
      "Apply appropriate insecticide or miticide",
      "Use biological control methods if available", "Monitor pest population regularly",
      "URGENT: Take immediate action",
      "Consult agricultural expert for proper diagnosis" }

\* the texts of the environmental recommendations
EnvironmentalTexts ==
    { "Provide protection from cold temperatures", "Provide shade or cooling measures",
      "Increase humidity around plants", "Improve ventilation to reduce humidity",
      "Increase watering frequency", "Reduce watering to prevent root rot" }

FollowUpText == "Schedule follow-up inspection within 3-5 days"

\* 1 for a disease-derived text, 2 for an environmental one, 3 for the follow-up
Stage(rec) ==
    IF rec \in DiseaseTexts THEN 1
    ELSE IF rec \in EnvironmentalTexts THEN 2
    ELSE IF rec = FollowUpText THEN 3
    ELSE 0

\* C14: the returned recommendations list has at most 8 entries, holds no string
\* twice, and is in first-seen order: every disease-derived recommendation precedes
\* every environmental one, and the follow-up recommendation, when present, comes
\* after both.
C14_RecommendationsList ==
    pc = "scored" =>
        LET recs == assessment.recommendations
        IN  /\ Len(recs) <= 8
            /\ \A i, j \in 1..Len(recs) : i # j => recs[i] # recs[j]
            /\ \A i \in 1..Len(recs) : Stage(recs[i]) \in 1..3
            /\ \A i, j \in 1..Len(recs) : i < j => Stage(recs[i]) <= Stage(recs[j])

\* a call whose recommendations were cut at 8: three detections of different types and
\* a reading out of range, with the follow-up recommendation due but cut off
C14_Witness ==
    /\ pc = "scored"
    /\ Len(assessment.recommendations) = 8
    /\ \E i \in 1..8 : Stage(assessment.recommendations[i]) = 1
    /\ \E i \in 1..8 : Stage(assessment.recommendations[i]) = 2
    /\ SomePriorityAtLeast(3)
    /\ \A i \in 1..8 : assessment.recommendations[i] # FollowUpText

\* the text a field of a reading calls for: low below its range, high above it,
\* none inside it or when the field is absent
FieldAdvice(sensor, p, low, high) ==
    IF getattr(sensor, p) = NoValue THEN <<>>
    ELSE IF Distance(getattr(sensor, p), optimal_range(p)) = R(0) THEN <<>>
    ELSE IF RLt(getattr(sensor, p), optimal_range(p)[1]) THEN <<low>>
    ELSE <<high>>

\* the environmental recommendations a reading calls for; pH calls for none
ExpectedEnvironmental(sensor) ==
    FieldAdvice(sensor, "temperature", "Provide protection from cold temperatures",
                                       "Provide shade or cooling measures")
    \o FieldAdvice(sensor, "humidity", "Increase humidity around plants",
                                       "Improve ventilation to reduce humidity")
    \o FieldAdvice(sensor, "soil_moisture", "Increase watering frequency",
                                            "Reduce watering to prevent root rot")

ScenarioB ==
    /\ detections = <<>>
    /\ sensor_data = SensorData(R(45), R(55), R(50), Rat(13, 2))

\* C15: environmental recommendations are produced only when a sensor reading is
\* supplied, independently per present field: temperature below its range gives the
\* cold-protection text and above it the shade/cooling text, humidity below gives
\* "increase humidity" and above "improve ventilation", soil moisture below gives
\* "increase watering" and above "reduce watering"; a field inside its range and any pH
\* value give none. The reading {temperature 45, humidity 55, soil moisture 50, pH 6.5}
\* with no detections yields environmental_score < 100, disease_score = 100 and a list
\* containing the shade/cooling recommendation.
C15_EnvironmentalRecommendations ==
    /\ pc = "env_recommended" => call.result = ExpectedEnvironmental(call.sensor_data)
    /\ pc = "scored" =>
         LET recs == assessment.recommendations
             env == SelectSeq(recs, LAMBDA r : r \in EnvironmentalTexts)
         IN  /\ sensor_data = None => env = <<>>
             /\ sensor_data # None /\ Len(recs) < 8 => env = ExpectedEnvironmental(sensor_data)
             /\ ScenarioB =>
                  /\ RLt(assessment.environmental_score, R(100))
                  /\ assessment.disease_score = R(100)
                  /\ \E i \in 1..Len(recs) : recs[i] = "Provide shade or cooling measures"

\* the call of the second scenario, with the shade/cooling recommendation returned
C15_Witness ==
    /\ pc = "scored"
    /\ ScenarioB
    /\ assessment.recommendations = << "Provide shade or cooling measures" >>

\* the three-item list of a disease type
Template(type) ==
    CASE type = "fungal" ->
           << "Apply appropriate fungicide treatment",
              "Improve air circulation around plants",
              "Avoid overhead watering" >>
      [] type = "bacterial" ->
           << "Remove and destroy infected plant material",
              "Apply copper-based bactericide if available",
              "Avoid working with wet plants" >>
      [] type = "viral" ->
           << "Remove infected plants to prevent spread",
              "Control insect vectors",
              "Use virus-free planting material" >>
      [] type = "pest" ->
           << "Apply appropriate insecticide or miticide",
              "Use biological control methods if available",
              "Monitor pest population regularly" >>

\* a list without its urgent prefix, if it has one
WithoutUrgent(recs) ==
    IF recs # <<>> /\ recs[1] = "URGENT: Take immediate action" THEN Tail(recs) ELSE recs

\* C16: the treatment template returned for a disease is selected by its type: fungal,
\* bacterial, viral and pest each give their own three-item list, and every other case
\* (a label with no record, or a record whose type is none of those four) gives the
\* single recommendation to consult an agricultural expert for proper diagnosis.
C16_TemplateByType ==
    pc = "treatment_recommended" =>
        LET record == dict_get(disease_db, call.disease_name)
        IN  IF record # None /\ record.type \in {"fungal", "bacterial", "viral", "pest"}
            THEN WithoutUrgent(call.result) = Template(record.type)
            ELSE WithoutUrgent(call.result)
                     = << "Consult agricultural expert for proper diagnosis" >>

\* C19: detected_issues of the returned assessment has exactly one classified
\* detection per input detection, in the input order (never re-sorted by severity,
\* impact or confidence), and entry i carries the label, confidence and area of input
\* detection i.
C19_DetectedIssuesInInputOrder ==
    pc = "scored" =>
        /\ Len(assessment.detected_issues) = Len(detections)
        /\ \A i \in 1..Len(detections) :
               /\ assessment.detected_issues[i].class_name = detections[i].class_name
               /\ assessment.detected_issues[i].confidence = detections[i].confidence
               /\ assessment.detected_issues[i].area = detections[i].area

\* a call with two detections of different labels, the less severe one first,
\* returned in that order
C19_Witness ==
    /\ pc = "scored"
    /\ Len(detections) = 2
    /\ detections[1].class_name # detections[2].class_name
    /\ assessment.detected_issues[1].class_name = detections[1].class_name
    /\ assessment.detected_issues[2].class_name = detections[2].class_name
    /\ RLt(assessment.detected_issues[1].weighted_impact,
           assessment.detected_issues[2].weighted_impact)
    /\ assessment.detected_issues[1].treatment_priority
           < assessment.detected_issues[2].treatment_priority

\* C17: calling calculate_health_score twice on the same HealthScorer with identical
\* detections and sensor reading, in any order relative to other calls with other
\* inputs, returns assessments that are equal in every field: the result depends only
\* on the call's own arguments.
C17_SameInputsSameAssessment ==
    \A t, u \in Threads :
        (/\ threads[t].pc = "done"
         /\ threads[u].pc = "done"
         /\ threads[t].detections = threads[u].detections
         /\ threads[t].sensor_data = threads[u].sensor_data)
            => threads[t].assessment = threads[u].assessment

\* two finished calls with the same detection of a label without a record and the
\* same assessment
C17_Witness ==
    /\ threads["t1"].pc = "done"
    /\ threads["t2"].pc = "done"
    /\ Len(threads["t1"].detections) = 1
    /\ threads["t1"].detections = threads["t2"].detections
    /\ threads["t1"].sensor_data = threads["t2"].sensor_data
    /\ threads["t1"].assessment = threads["t2"].assessment
    /\ threads["t1"].assessment.detected_issues[1].type = "unknown"

\* no step writes the disease table or the optimal-range table
C18_TablesReadOnly ==
    /\ disease_db' = disease_db
    /\ optimal_ranges' = optimal_ranges

\* a finished call holds the assessment the call returns when it runs alone on the
\* tables as they were initialized
C18_AsAlone ==
    /\ optimal_ranges = OPTIMAL_RANGES
    /\ \A t \in Threads :
           threads[t].pc = "done" =>
               threads[t].assessment
                   = calculate_health_score(_build_disease_database(disease_classes),
                                            threads[t].detections, threads[t].sensor_data)

\* C18: under any interleaving of concurrent calculate_health_score calls on the
\* shared HealthScorer, the disease table (disease_db) and the optimal-range table
\* (OPTIMAL_RANGES) are never written after initialization, and each call returns the
\* assessment it would return if it ran alone.
C18_ConcurrentCalls == [][C18_TablesReadOnly]_vars /\ [](C18_AsAlone)

\* one call has returned while another, with other arguments, is between its reads
\* of the tables
C18_Witness ==
    /\ threads["t1"].pc = "done"
    /\ threads["t2"].pc \in {"environment", "recommend", "finish"}
    /\ threads["t1"].detections # threads["t2"].detections
    /\ threads["t1"].detections # <<>>
    /\ threads["t2"].detections # <<>>

\* the label of the last advice call has an entry in the knowledge base
KnowledgeBaseMatch ==
    \E i \in 1..Len(knowledge_base) :
        knowledge_base[i].key = _simplify_disease_name(call.disease_name)

\* the external call answers with status 200 and a list whose first item carries a
\* text that is not blank
ServiceSucceeds ==
    /\ ~call.service_response.raised
    /\ call.service_response.status_code = 200
    /\ call.service_response.json.kind = "list"
    /\ call.service_response.json.items # <<>>
    /\ call.service_response.json.items[1].is_dict
    /\ call.service_response.json.items[1].has_text
    /\ \E i \in 1..Len(call.service_response.json.items[1].generated_text) :
           call.service_response.json.items[1].generated_text[i] # " "

\* C20: get_disease_advice always returns an advice record and never raises, resolving
\* in this order: a knowledge-base match gives confidence 'high' with the local source;
\* otherwise, if a text-generation credential is configured and the external call
\* succeeds with non-empty text, confidence 'medium' with the generated source;
\* otherwise (no credential, timeout, non-200 status, malformed or empty response, or
\* any exception) the generic templated block with confidence 'low' and the generic
\* source.
C20_AdviceResolutionOrder ==
    pc = "advised" =>
        /\ DOMAIN call.result = {"disease_name", "summary", "confidence", "source"}
        /\ call.result.disease_name = call.disease_name
        /\ IF KnowledgeBaseMatch
           THEN call.result.confidence = "high" /\ call.result.source = "local_knowledge"
           ELSE IF huggingface_key # "" /\ ServiceSucceeds
                THEN /\ call.result.confidence = "medium"
                     /\ call.result.source = "llm_generated"
                ELSE /\ call.result.confidence = "low"
                     /\ call.result.source = "generic_guidelines"

\* a label outside the knowledge base, a credential and an answer of the external
\* service with text: generated advice
C20_Witness ==
    /\ pc = "advised"
    /\ ~KnowledgeBaseMatch
    /\ huggingface_key # ""
    /\ ServiceSucceeds
    /\ call.result.confidence = "medium"
    /\ call.result.summary = <<"R","o","t","a","t","e"," ","c","r","o","p","s",".">>

\* a list without the repetitions of its entries, in first-seen order
RECURSIVE FirstSeen(_)
FirstSeen(s) ==
    IF s = <<>> THEN <<>>
    ELSE LET front == FirstSeen(SubSeq(s, 1, Len(s) - 1))
         IN  IF \E i \in 1..Len(front) : front[i] = s[Len(s)]
             THEN front
             ELSE Append(front, s[Len(s)])

\* the first two items of the recommendation blocks of the first n detections of the
\* last call, in input order
RECURSIVE FirstTwoOfEach(_)
FirstTwoOfEach(n) ==
    IF n = 0 THEN <<>>
    ELSE LET block == get_treatment_recommendations(disease_db, detections[n].class_name)
         IN  FirstTwoOfEach(n - 1) \o SubSeq(block, 1, IF Len(block) < 2 THEN Len(block) ELSE 2)

\* what the first three detections of the last call contribute
FirstThreeContribution ==
    FirstSeen(FirstTwoOfEach(IF Len(detections) < 3 THEN Len(detections) ELSE 3))

\* C23: disease-derived recommendations come only from the first 3 classified
\* detections in their original input order, each contributing at most the first 2
\* items of its recommendation block; a fourth or later detection contributes no
\* treatment recommendation, whatever its severity or priority.
C23_FirstThreeDetectionsOnly ==
    pc = "scored" =>
        SelectSeq(assessment.recommendations, LAMBDA r : Stage(r) = 1)
            = FirstThreeContribution

\* a call with four detections, the fourth of high or critical severity, whose urgent
\* text and template are not in the list
C23_Witness ==
    /\ pc = "scored"
    /\ Len(detections) = 4
    /\ assessment.detected_issues[4].severity \in {"high", "critical"}
    /\ assessment.detected_issues[4].treatment_priority >= 4
    /\ FirstThreeContribution # <<>>
    /\ \A i \in 1..Len(assessment.recommendations) :
           /\ assessment.recommendations[i] # "URGENT: Take immediate action"
           /\ assessment.recommendations[i]
                  \notin {Template(assessment.detected_issues[4].type)[k] : k \in 1..3}

\* C24: for a disease whose severity tier is high or critical, the urgent-action text
\* is the first item of its recommendation block, so after the 2-item truncation that
\* disease contributes the urgent text plus exactly one type-specific tip; for a low
\* or medium tier the urgent text is never added.
C24_UrgentFirst ==
    /\ pc = "treatment_recommended" =>
         LET record == dict_get(disease_db, call.disease_name)
             urgent == {i \in 1..Len(call.result) :
                           call.result[i] = "URGENT: Take immediate action"}
         IN  IF record # None /\ record.severity \in {"high", "critical"}
             THEN /\ urgent = {1}
                  /\ record.type \in {"fungal", "bacterial", "viral", "pest"}
                  /\ SubSeq(call.result, 1, 2)
                         = << "URGENT: Take immediate action", Template(record.type)[1] >>
             ELSE urgent = {}
    /\ (pc = "scored" /\ Len(detections) = 1) =>
         IF assessment.detected_issues[1].severity \in {"high", "critical"}
         THEN SelectSeq(assessment.recommendations, LAMBDA r : Stage(r) = 1)
                  = << "URGENT: Take immediate action",
                       Template(assessment.detected_issues[1].type)[1] >>
         ELSE \A i \in 1..Len(assessment.recommendations) :
                  assessment.recommendations[i] # "URGENT: Take immediate action"

\* the block of a label of critical severity, the urgent text first
C24_Witness ==
    /\ pc = "treatment_recommended"
    /\ dict_get(disease_db, call.disease_name) # None
    /\ dict_get(disease_db, call.disease_name).severity = "critical"
    /\ Len(call.result) = 4
    /\ call.result[1] = "URGENT: Take immediate action"

\* the follow-up text is in the list of the last call
HasFollowUp ==
    \E i \in 1..Len(assessment.recommendations) :
        assessment.recommendations[i] = FollowUpText

\* C26 (as claimed): whenever at least one classified detection has treatment
\* priority >= 3, the recommendations list returned by calculate_health_score contains
\* "Schedule follow-up inspection within 3-5 days", for every combination of
\* detections and sensor reading; and it never contains that text when no detection
\* has priority >= 3.
C26_FollowUpIffPriority ==
    pc = "scored" => (SomePriorityAtLeast(3) <=> HasFollowUp)

\* the number of distinct disease-derived and environmental recommendations of the
\* last call, which precede the follow-up text
AheadOfFollowUp ==
    Len(FirstThreeContribution)
        + (IF sensor_data = None THEN 0 ELSE Len(ExpectedEnvironmental(sensor_data)))

\* C26 (amended): the list contains the follow-up text exactly when some classified
\* detection has treatment priority >= 3 and fewer than 8 distinct disease-derived and
\* environmental recommendations precede it; with 8 or more the limit of 8 entries
\* cuts it off.
C26_FollowUpUnlessCut ==
    pc = "scored" => (HasFollowUp <=> (SomePriorityAtLeast(3) /\ AheadOfFollowUp < 8))

\* a call where the follow-up text is the eighth and last entry
C26_Witness ==
    /\ pc = "scored"
    /\ SomePriorityAtLeast(3)
    /\ AheadOfFollowUp = 7
    /\ Len(assessment.recommendations) = 8
    /\ assessment.recommendations[8] = FollowUpText

\* the external service was asked and gave no usable text
RequestFailed ==
    /\ call.requests > 0
    /\ ~ServiceSucceeds

\* C25: one get_disease_advice call issues at most one request to the external
\* text-generation service, and issues none when the label matches the knowledge base
\* or when no credential is configured; a failed request is not retried before the
\* generic advice is returned.
C25_AtMostOneRequest ==
    pc \in {"advice_requesting", "advised"} =>
        /\ call.requests <= 1
        /\ (KnowledgeBaseMatch \/ huggingface_key = "") => call.requests = 0
        /\ (pc = "advised" /\ RequestFailed) =>
               /\ call.requests = 1
               /\ call.result.source = "generic_guidelines"

\* a call whose one request timed out and which returned the generic advice
C25_Witness ==
    /\ pc = "advised"
    /\ call.requests = 1
    /\ call.service_response.raised
    /\ call.result.source = "generic_guidelines"

\* a label as lower-case words separated by single blanks
SpacedWords(label) ==
    replace_underscores(sub_whitespace(strip(replace_underscores(lower(label)))))

\* the label contains the words of one of the five diseases of the knowledge base
MentionsKnownDisease(label) ==
    \E words \in {s_early_blight_sp, s_late_blight_sp, s_bacterial_spot_sp,
                  s_powdery_mildew_sp, s_spider_mite_sp} :
        contains(SpacedWords(label), words)

\* C29: get_disease_advice returns the local knowledge-base entry (confidence 'high')
\* for every label that contains the words of one of the five known diseases (early
\* blight, late blight, bacterial spot, powdery mildew, spider mite), written with
\* spaces or underscores and in any letter case, including labels that carry extra
\* words such as a crop prefix (for example "Tomato Late Blight" or
\* "tomato_early_blight").
C29_KnownDiseaseLabels ==
    (pc = "advised" /\ MentionsKnownDisease(call.disease_name)) =>
        /\ call.result.confidence = "high"
        /\ call.result.source = "local_knowledge"

\* the answer is a 200 whose body the code can process
Usable(response) ==
    /\ ~response.raised
    /\ response.status_code = 200
    /\ response.body.kind = "object"
    /\ \A i \in 1..Len(response.body.results) : response.body.results[i].is_dict

IsFallback(result) ==
    /\ result.success = FALSE
    /\ result.all_results = <<>>

\* C28: identify_plant never raises. With an API key it contacts the PlantNet projects
\* in the fixed order all, weurope, useful, k-world-flora, the-plant-list, stops at the
\* first that answers 200 with a body it can process and returns that result with
\* success=True, contacting no later project; if every project fails, or no key is
\* configured, or the image cannot be prepared, it returns the fallback result with
\* success=False and an empty all_results.
C28_IdentifyPlant ==
    pc \in {"identifying", "identified"} =>
        /\ call.contacted = SubSeq(<<"all", "weurope", "useful", "k-world-flora",
                                     "the-plant-list">>, 1, Len(call.contacted))
        /\ Len(call.answers) = Len(call.contacted)
        /\ \A i \in 1..(Len(call.answers) - 1) : ~Usable(call.answers[i])
        /\ pc = "identifying" =>
               /\ Len(call.contacted) < 5
               /\ \A i \in 1..Len(call.answers) : ~Usable(call.answers[i])
        /\ pc = "identified" =>
               /\ call.result # Raises
               /\ IF call.answers # <<>> /\ Usable(call.answers[Len(call.answers)])
                  THEN /\ call.result.success = TRUE
                       /\ call.result.species_count
                              = Len(call.answers[Len(call.answers)].body.results)
                  ELSE /\ IsFallback(call.result)
                       /\ \/ Len(call.contacted) = 5
                          \/ /\ call.contacted = <<>>
                             /\ \/ api_key = ""
                                \/ call.image.kind \notin {"bytes", "path"}
                                \/ call.image.data = <<>>
               /\ (api_key = "" \/ call.image.kind = "other") => call.contacted = <<>>

\* the third project is the first to give a usable answer and the call returns its
\* species, the best score first
C28_Witness ==
    /\ pc = "identified"
    /\ call.contacted = <<"all", "weurope", "useful">>
    /\ call.result.success = TRUE
    /\ call.result.species_count = 2
    /\ call.result.best_match.primary_common_name = "Tomato"

\* the fields of an assessment that the scoring produces
ScoringFields(body) ==
    [disease_score |-> body.disease_score,
     environmental_score |-> body.environmental_score,
     overall_health |-> body.overall_health,
     risk_level |-> body.risk_level,
     confidence |-> body.confidence,
     recommendations |-> body.recommendations]

\* the last request was a /predict and has been answered
Predicted ==
    /\ pc = "responded"
    /\ call.op = "predict"

\* the response to the last /predict request had plant identification been handled
\* otherwise: another key, another include_plant_id, another outcome of PlantNet
OtherwiseIdentified(key, include_plant_id, plantnet) ==
    predict_crop_health(disease_db, key, yolo_inference, 0, 0,
                        [call.request EXCEPT !.include_plant_id = include_plant_id],
                        call.inference, plantnet)

\* C21: in a /predict request the assessment's disease_score, environmental_score,
\* overall_health, risk_level, confidence and recommendations are the same whether
\* plant identification is disabled, skipped for lack of a key, succeeds with any
\* species, returns the fallback result, or raises: species identification never
\* influences scoring.
C21_SpeciesNeverInfluencesScoring ==
    Predicted =>
        \A key \in PlantNetKeys, include_plant_id \in BOOLEAN :
        \A plantnet \in (IF include_plant_id /\ key # ""
                         THEN PlantOutcomes ELSE {NoPlantCall}) :
            LET other == OtherwiseIdentified(key, include_plant_id, plantnet)
            IN  /\ other.status_code = call.response.status_code
                /\ call.response.status_code = 200 =>
                       /\ ScoringFields(other.body) = ScoringFields(call.response.body)
                       /\ ScoringFields(other.stored.health_assessment)
                              = ScoringFields(call.response.stored.health_assessment)
                       /\ ScoringFields(call.response.body)
                              = ScoringFields(call.response.stored.health_assessment)

\* a request that found late blight and whose plant was identified as a tomato
C21_Witness ==
    /\ Predicted
    /\ call.response.status_code = 200
    /\ call.response.body.detected_diseases # <<>>
    /\ call.response.body.plant_identification # None
    /\ call.response.body.plant_identification.primary_common_name = "Tomato"

\* C22: once /predict has stored a record under a prediction_id in predictions_store,
\* no later request of any kind (/predict, /advice/{id}, /predictions, /disease-advice)
\* modifies, replaces or removes that record or the assessment it holds; /advice and
\* /predictions only read it.
C22_StoredRecordsImmutable ==
    [][/\ \A id \in DOMAIN predictions_store :
              /\ id \in DOMAIN predictions_store'
              /\ predictions_store'[id] = predictions_store[id]
       /\ (pc' = "responded" /\ call'.op # "predict") =>
              predictions_store' = predictions_store]_vars

\* two records are stored and the advice for the first has just been served
C22_Witness ==
    /\ Cardinality(DOMAIN predictions_store) = 2
    /\ pc = "responded"
    /\ call.op = "advice"
    /\ call.prediction_id = 1
    /\ call.response.status_code = 200

\* C27: a /predict request whose uploaded file does not have an image/* content type is
\* answered with HTTP status 400 ("File must be an image"), and nothing is added to
\* predictions_store for it.
C27_NonImageRejected ==
    (/\ Predicted
     /\ call.request.image.has_content_type
     /\ ~startswith(call.request.image.content_type, s_image_slash)) =>
        /\ call.response.status_code = 400
        /\ call.response.detail = "File must be an image"
        /\ DOMAIN predictions_store = call.ids_before

\* the detector of the last /predict request failed to initialise, or its inference
\* raised
DetectorUnavailable ==
    \/ yolo_inference = None
    \/ call.inference.raises

\* the share of the four fields of a reading that are present, as a percentage, or 50
SignalOfReading(sensor) ==
    IF sensor = None THEN R(50)
    ELSE R(25 * Cardinality({p \in {"temperature", "humidity", "soil_moisture", "ph"} :
                                getattr(sensor, p) # NoValue}))

\* C30: when the detector is unavailable (it failed to initialise, or inference
\* raises), a /predict request does not fail: it scores an empty detection list, so
\* the response has disease_score 100, an empty detected_diseases list and a
\* detection-confidence signal of 90, indistinguishable from an image in which the
\* detector found nothing.
C30_DetectorUnavailable ==
    (Predicted /\ DetectorUnavailable) =>
        /\ call.response
               = predict_crop_health(disease_db, api_key, Detector,
                                     Cardinality(call.ids_before) + 1,
                                     Cardinality(call.ids_before) + 1,
                                     call.request,
                                     [raises |-> FALSE, detections |-> <<>>],
                                     call.plantnet)
        /\ Readable(call.request.image) =>
               /\ call.response.status_code = 200
               /\ call.response.body.disease_score = R(100)
               /\ call.response.body.detected_diseases = <<>>
               /\ call.response.body.confidence
                      = RDiv(RAdd(R(90),
                                  SignalOfReading(parse_sensor_data(call.request.sensor_data))),
                             R(2))
               /\ predictions_store[call.response.body.prediction_id].health_assessment
                      .disease_score = R(100)

\* the detector failed to initialise and a readable image was scored
C30_Witness ==
    /\ Predicted
    /\ yolo_inference = None
    /\ call.response.status_code = 200
    /\ call.response.body.disease_score = R(100)
    /\ call.response.body.confidence = R(70)

====
